---- MODULE Spec2Model ----
(***************************************************************************)
(* RMS_telemetry: the log-line parser (RMS_telemetry/log.py), the          *)
(* telemetry store (RMS_telemetry/server.py, and the older store kept in   *)
(* RMS_telemetry.py) and the driver that loads the old logs and then polls *)
(* the newest one (RMS_telemetry.py, __main__).                            *)
(*                                                                         *)
(* Documents are Python dicts: they are modelled as functions whose DOMAIN *)
(* is the set of keys present.  Timestamps are seconds since the epoch, so *)
(* the dummy time 1970-01-01T00:00:00Z is 0.  A log line is a record that  *)
(* carries what the two regular expressions of log.py extract from it.     *)
(***************************************************************************)
EXTENDS Integers, Sequences, FiniteSets, TLC

\* ------------------------------------------------------------------------
\* Bounds of the model
\* ------------------------------------------------------------------------
MaxLines == 3
MaxPolls == 2
MaxOldFiles == 2
MaxRotations == 2
MaxCalls == 3
MaxCycleLines == 4
MaxCyclePolls == 2
MaxLatestCalls == 3
MaxStoreCalls == 8
MaxTime == 6
MaxWorld == 2
CacheSeconds == 2
CacheSize == 2

\* ------------------------------------------------------------------------
\* Program constants
\* ------------------------------------------------------------------------
DUMMY_TIME == 0
LOOKBACK_LEN == 5
TAIL_LINES == 100
DAY == 86400
max_history == 7
SCRIPT_HISTORY == 7

\* ------------------------------------------------------------------------
\* Python dicts
\* ------------------------------------------------------------------------
EmptyDict == [x \in {} |-> 0]

Has(d, k) == k \in DOMAIN d

Put(d, k, v) == [x \in (DOMAIN d) \cup {k} |-> IF x = k THEN v ELSE d[x]]

Del(d, k) == [x \in (DOMAIN d) \ {k} |-> d[x]]

\* data[sec][k] = v
PutIn(d, sec, k, v) == Put(d, sec, Put(d[sec], k, v))

\* del data[sec][k]
DelIn(d, sec, k) == Put(d, sec, Del(d[sec], k))

\* ------------------------------------------------------------------------
\* Log lines: what _logRE and _obsRE extract
\* ------------------------------------------------------------------------
\* An event line "DATE TIME-LEVEL-MODULE-line:N - MESSAGE".  msg is the
\* message shape the dispatch tests for; a and b are its numeric tokens.
Ev(ts, level, mod, msg, a, b) ==
    [shape |-> "event", ts |-> ts, level |-> level, mod |-> mod,
     msg |-> msg, a |-> a, b |-> b]

\* A summary line "parameter : value".
Sm(param, a) ==
    [shape |-> "summary", ts |-> 0, level |-> "", mod |-> "",
     msg |-> param, a |-> a, b |-> 0]

\* A line neither expression matches ("Observation Summary", "=====", "").
NoiseLine ==
    [shape |-> "noise", ts |-> 0, level |-> "", mod |-> "",
     msg |-> "", a |-> 0, b |-> 0]

\* log.py imports re, collections.deque, .utils and typing: the name os
\* used by the 'Starting upload of' branch is not bound.
OsImported == FALSE

\* ------------------------------------------------------------------------
\* The parser's module-level state
\* ------------------------------------------------------------------------
NoPending == [set |-> FALSE, astrometry_good |-> FALSE, updated |-> 0]

NoExpected == [set |-> FALSE, value |-> 0]

InitCtx ==
    [CAPTURE_STARTED |-> FALSE, PENDING_CAMREA |-> NoPending,
     LOOKBACK_BUFFER |-> <<>>, EXPECTED_FITS |-> NoExpected]

\* a deque that never evicts (a plain list in its place)
DequeAppendNoEvict(q, x, maxlen) == Append(q, x)

\* deque([], 5).append(dt)
DequeAppend(q, x, maxlen) ==
    IF maxlen = 0 THEN <<>>
    ELSE IF Len(q) >= maxlen THEN Append(SubSeq(q, Len(q) - maxlen + 2, Len(q)), x)
    ELSE Append(q, x)

\* list.index / del list[i] on a list of distinct or repeated names
RECURSIVE IndexOf(_, _, _)
IndexOf(s, x, i) ==
    IF i > Len(s) THEN 0
    ELSE IF s[i] = x THEN i
    ELSE IndexOf(s, x, i + 1)

RemoveAt(s, i) == SubSeq(s, 1, i - 1) \o SubSeq(s, i + 1, Len(s))

InSeq(s, x) == \E i \in 1..Len(s) : s[i] = x

\* ------------------------------------------------------------------------
\* parse_log_line
\* ------------------------------------------------------------------------
\* The result of a call: the document, the module state, whether the call
\* raised (data and ctx then hold what had been mutated in place before
\* the exception) and whether the document is a new object (not data).
Ret(d, c, raised, fresh) ==
    [data |-> d, ctx |-> c, raised |-> raised, fresh |-> fresh]

SectionDefault(key) ==
    IF key = "detections" THEN [n_star |-> 0]
    ELSE IF key = "upload" THEN [attempted |-> <<>>, completed |-> <<>>]
    ELSE EmptyDict

AddSection(d, key) == IF Has(d, key) THEN d ELSE Put(d, key, SectionDefault(key))

DefaultSections(data) ==
    LET d0 == IF DOMAIN data = {}
              THEN [capture |-> EmptyDict, detections |-> EmptyDict,
                    camera |-> EmptyDict, upload |-> EmptyDict]
              ELSE data
    IN  AddSection(AddSection(AddSection(AddSection(d0,
            "capture"), "detections"), "camera"), "upload")

\* a start of capture that stamps the sections with the dummy time
StartingCaptureStaleUpdated(d, c, l) ==
    LET c1 == [c EXCEPT !.CAPTURE_STARTED = TRUE]
        dt == l.ts
        cap == [x \in ((DOMAIN d.capture) \cup
                       {"running", "duration_hr", "started", "latest_block",
                        "block_max_age_s", "n_frames_dropped",
                        "latest_all_white", "updated"}) \ {"next_start"} |->
                  CASE x = "running" -> TRUE
                    [] x = "duration_hr" -> l.a
                    [] x = "started" -> dt
                    [] x = "latest_block" -> DUMMY_TIME
                    [] x = "block_max_age_s" -> 0
                    [] x = "n_frames_dropped" -> 0
                    [] x = "latest_all_white" -> DUMMY_TIME
                    [] x = "updated" -> DUMMY_TIME
                    [] OTHER -> d.capture[x]]
        det == [x \in (DOMAIN d.detections) \cup
                      {"n_meteor", "last_meteor", "n_meteor_final", "updated"} |->
                  CASE x = "n_meteor" -> 0
                    [] x = "last_meteor" -> DUMMY_TIME
                    [] x = "n_meteor_final" -> 0
                    [] x = "updated" -> DUMMY_TIME
                    [] OTHER -> d.detections[x]]
    IN  IF l.b # 5
        THEN Ret(d, c1, TRUE, FALSE)
        ELSE Ret(Put(Put(d, "capture", cap), "detections", det), c1, FALSE, FALSE)

\* a start of capture that leaves the meteor count of the previous run
StartingCaptureKeepsCounters(d, c, l) ==
    LET c1 == [c EXCEPT !.CAPTURE_STARTED = TRUE]
        dt == l.ts
        cap == [x \in ((DOMAIN d.capture) \cup
                       {"running", "duration_hr", "started", "latest_block",
                        "block_max_age_s", "n_frames_dropped",
                        "latest_all_white", "updated"}) \ {"next_start"} |->
                  CASE x = "running" -> TRUE
                    [] x = "duration_hr" -> l.a
                    [] x = "started" -> dt
                    [] x = "latest_block" -> DUMMY_TIME
                    [] x = "block_max_age_s" -> 0
                    [] x = "n_frames_dropped" -> 0
                    [] x = "latest_all_white" -> DUMMY_TIME
                    [] x = "updated" -> dt
                    [] OTHER -> d.capture[x]]
        det == [x \in (DOMAIN d.detections) \cup
                      {"n_meteor", "last_meteor", "n_meteor_final", "updated"} |->
                  CASE x = "n_meteor" ->
                           IF Has(d.detections, "n_meteor")
                           THEN d.detections["n_meteor"] ELSE 0
                    [] x = "last_meteor" -> DUMMY_TIME
                    [] x = "n_meteor_final" -> 0
                    [] x = "updated" -> dt
                    [] OTHER -> d.detections[x]]
    IN  IF l.b # 5
        THEN Ret(d, c1, TRUE, FALSE)
        ELSE Ret(Put(Put(d, "capture", cap), "detections", det), c1, FALSE, FALSE)

StartingCapture(d, c, l) ==
    LET c1 == [c EXCEPT !.CAPTURE_STARTED = TRUE]
        dt == l.ts
        cap == [x \in ((DOMAIN d.capture) \cup
                       {"running", "duration_hr", "started", "latest_block",
                        "block_max_age_s", "n_frames_dropped",
                        "latest_all_white", "updated"}) \ {"next_start"} |->
                  CASE x = "running" -> TRUE
                    [] x = "duration_hr" -> l.a
                    [] x = "started" -> dt
                    [] x = "latest_block" -> DUMMY_TIME
                    [] x = "block_max_age_s" -> 0
                    [] x = "n_frames_dropped" -> 0
                    [] x = "latest_all_white" -> DUMMY_TIME
                    [] x = "updated" -> dt
                    [] OTHER -> d.capture[x]]
        det == [x \in (DOMAIN d.detections) \cup
                      {"n_meteor", "last_meteor", "n_meteor_final", "updated"} |->
                  CASE x = "n_meteor" -> 0
                    [] x = "last_meteor" -> DUMMY_TIME
                    [] x = "n_meteor_final" -> 0
                    [] x = "updated" -> dt
                    [] OTHER -> d.detections[x]]
    IN  IF l.b # 5
        THEN Ret(d, c1, TRUE, FALSE)
        ELSE Ret(Put(Put(d, "capture", cap), "detections", det), c1, FALSE, FALSE)

EndingCapture(d, c, l) ==
    Ret(PutIn(PutIn(d, "capture", "running", FALSE), "capture", "updated", l.ts),
        c, FALSE, FALSE)

\* an end-of-day signal that leaves the run-started flag set
NextStartTimeKeepsFlag(d, c, l) ==
    IF c.CAPTURE_STARTED
    THEN Ret(Put(d, "end_of_day", TRUE), c, FALSE, FALSE)
    ELSE Ret(PutIn(PutIn(d, "capture", "next_start", l.a), "capture", "updated", l.ts),
             c, FALSE, FALSE)

NextStartTime(d, c, l) ==
    IF c.CAPTURE_STARTED
    THEN Ret(Put(d, "end_of_day", TRUE), [c EXCEPT !.CAPTURE_STARTED = FALSE],
             FALSE, FALSE)
    ELSE Ret(PutIn(PutIn(d, "capture", "next_start", l.a), "capture", "updated", l.ts),
             c, FALSE, FALSE)

\* iso_age(nsdt, ref=dt): positive when nsdt is older than dt
iso_age(iso, ref) == ref - iso

NextCaptureStart(d, c, l) ==
    LET dt == l.ts
        nsdt0 == (dt \div DAY) * DAY + l.a
        age == iso_age(nsdt0, dt)
        nsdt == IF age > 0 THEN nsdt0 + DAY ELSE nsdt0
    IN  Ret(PutIn(PutIn(d, "capture", "next_start", nsdt), "capture", "updated", dt),
            c, FALSE, FALSE)

BlockMaxAge(d, c, l) ==
    Ret(PutIn(PutIn(PutIn(PutIn(d, "capture", "latest_block", l.ts),
                          "capture", "block_max_age_s", l.a),
                    "capture", "n_frames_dropped", l.b),
              "capture", "updated", l.ts),
        c, FALSE, FALSE)

AllWhite(d, c, l) ==
    Ret(PutIn(PutIn(d, "capture", "latest_all_white", l.ts), "capture", "updated", l.ts),
        c, FALSE, FALSE)

DetectedStars(d, c, l) ==
    Ret(PutIn(PutIn(d, "detections", "n_star", l.a), "detections", "updated", l.ts),
        c, FALSE, FALSE)

\* a meteor count that is stored, not added
DetectedMeteorsOverwrite(d, c, l) ==
    LET nmeteor == l.a
        d1 == PutIn(d, "detections", "n_meteor", nmeteor)
        d2 == IF nmeteor > 0 THEN PutIn(d1, "detections", "last_meteor", l.ts) ELSE d1
    IN  Ret(PutIn(d2, "detections", "updated", l.ts), c, FALSE, FALSE)

DetectedMeteors(d, c, l) ==
    LET nmeteor == l.a
        total == IF Has(d.detections, "n_meteor")
                 THEN d.detections["n_meteor"] + nmeteor
                 ELSE nmeteor
        d1 == PutIn(d, "detections", "n_meteor", total)
        d2 == IF nmeteor > 0 THEN PutIn(d1, "detections", "last_meteor", l.ts) ELSE d1
    IN  Ret(PutIn(d2, "detections", "updated", l.ts), c, FALSE, FALSE)

FTPdetectinfoFiltered(d, c, l) ==
    Ret(PutIn(PutIn(d, "detections", "n_meteor_final", l.a), "detections", "updated", l.ts),
        c, FALSE, FALSE)

\* a calibration result written to the document at once
AstrometricCalibrationDirect(d, c, l) ==
    Ret(PutIn(d, "camera", "astrometry_good", l.a = 1),
        [c EXCEPT !.PENDING_CAMREA =
                [set |-> TRUE, astrometry_good |-> (l.a = 1), updated |-> l.ts]],
        FALSE, FALSE)

AstrometricCalibration(d, c, l) ==
    Ret(d, [c EXCEPT !.PENDING_CAMREA =
                [set |-> TRUE, astrometry_good |-> (l.a = 1), updated |-> l.ts]],
        FALSE, FALSE)

StartingUpload(d, c, l) ==
    IF ~OsImported \/ ~Has(d.upload, "attempted")
    THEN Ret(d, c, TRUE, FALSE)
    ELSE LET filename == l.a
             att == d.upload["attempted"]
             att1 == IF InSeq(att, filename)
                     THEN RemoveAt(att, IndexOf(att, filename, 1))
                     ELSE att
         IN  Ret(PutIn(PutIn(d, "upload", "attempted", Append(att1, filename)),
                       "upload", "updated", l.ts),
                 c, FALSE, FALSE)

UploadSuccessful(d, c, l) ==
    IF ~Has(d.upload, "attempted") \/ d.upload["attempted"] = <<>>
    THEN Ret(d, c, TRUE, FALSE)
    ELSE LET att == d.upload["attempted"]
             filename == att[Len(att)]
             d1 == PutIn(d, "upload", "attempted", SubSeq(att, 1, Len(att) - 1))
         IN  IF ~Has(d1.upload, "completed")
             THEN Ret(d1, c, TRUE, FALSE)
             ELSE Ret(PutIn(PutIn(d1, "upload", "completed",
                                  Append(d1.upload["completed"], filename)),
                            "upload", "updated", l.ts),
                      c, FALSE, FALSE)

\* The dispatch on module and message of an event line (log.py 85-199).
Dispatch(d, c, l) ==
    CASE l.mod = "StartCapture" /\ l.msg = "Starting capture" -> StartingCapture(d, c, l)
      [] l.mod = "StartCapture" /\ l.msg = "Ending capture..." -> EndingCapture(d, c, l)
      [] l.mod = "StartCapture" /\ l.msg = "Next start time:" -> NextStartTime(d, c, l)
      [] l.mod = "EventMonitor" /\ l.msg = "Next Capture start" -> NextCaptureStart(d, c, l)
      [] l.mod = "BufferedCapture" /\ l.msg = "Block's max frame age:" -> BlockMaxAge(d, c, l)
      [] l.mod = "VideoExtraction" /\ l.msg = "frames are all white" -> AllWhite(d, c, l)
      [] l.mod = "DetectStarsAndMeteors" /\ l.msg = "Detected stars:" -> DetectedStars(d, c, l)
      [] l.mod = "DetectStarsAndMeteors" /\ l.msg = "detected meteors:" -> DetectedMeteors(d, c, l)
      [] l.mod = "MLFilter" /\ l.msg = "FTPdetectinfo filtered," -> FTPdetectinfoFiltered(d, c, l)
      [] l.mod = "Reprocess" /\ l.msg = "Astrometric calibration" -> AstrometricCalibration(d, c, l)
      [] l.mod = "UploadManager" /\ l.msg = "Starting upload of" -> StartingUpload(d, c, l)
      [] l.mod = "UploadManager" /\ l.msg = "Upload successful!" -> UploadSuccessful(d, c, l)
      [] OTHER -> Ret(d, c, FALSE, FALSE)

\* the line appended whether or not it is already listed
RecordLevelAlways(d, l) ==
    IF l.level \in {"ERROR", "CRITICAL"}
    THEN LET key == IF l.level = "ERROR" THEN "error" ELSE "critical"
             d1 == IF Has(d, key) THEN d ELSE Put(d, key, <<>>)
         IN  Put(d1, key, Append(d1[key], l))
    ELSE d

\* llevel in ('ERROR', 'CRITICAL'): the stripped raw line, once
RecordLevel(d, l) ==
    IF l.level \in {"ERROR", "CRITICAL"}
    THEN LET key == IF l.level = "ERROR" THEN "error" ELSE "critical"
             d1 == IF Has(d, key) THEN d ELSE Put(d, key, <<>>)
         IN  IF InSeq(d1[key], l) THEN d1 ELSE Put(d1, key, Append(d1[key], l))
    ELSE d

EventLine(d, c, l) ==
    LET r == Dispatch(d, c, l)
    IN  IF r.raised THEN r
        ELSE Ret(RecordLevel(r.data, l),
                 [r.ctx EXCEPT !.LOOKBACK_BUFFER =
                      DequeAppend(r.ctx.LOOKBACK_BUFFER, l.ts, LOOKBACK_LEN)],
                 FALSE, FALSE)

\* param.split('_', 1)[1] for the camera_ parameters of the summary
CameraKey(param) ==
    CASE param = "camera_fov_h" -> "fov_h"
      [] param = "camera_lens" -> "lens"
      [] OTHER -> param

IsCameraParam(param) == param \in {"camera_fov_h", "camera_lens"}

\* 'True' / 'False' become booleans, anything else here is an integer
Coerce(param, a) == IF param = "photometry_good" THEN a = 1 ELSE a

SummaryLine(d, c, l) ==
    LET param == l.msg
        value == l.a
        r == CASE IsCameraParam(param) ->
                    Ret(PutIn(d, "camera", CameraKey(param), value), c, FALSE, FALSE)
               [] param = "jitter_quality" ->
                    Ret(PutIn(d, "camera", "jitter_quality", value), c, FALSE, FALSE)
               [] param = "photometry_good" ->
                    LET d1 == IF c.PENDING_CAMREA.set
                              THEN PutIn(d, "camera", "astrometry_good",
                                         c.PENDING_CAMREA.astrometry_good)
                              ELSE d
                        c1 == [c EXCEPT !.PENDING_CAMREA = NoPending]
                    IN  Ret(PutIn(d1, "camera", "photometry_good", Coerce(param, value)),
                            c1, FALSE, FALSE)
               [] param = "total_expected_fits" ->
                    Ret(d, [c EXCEPT !.EXPECTED_FITS = [set |-> TRUE, value |-> value]],
                        FALSE, FALSE)
               [] param = "total_fits" ->
                    IF c.EXPECTED_FITS.set
                    THEN IF c.EXPECTED_FITS.value = 0
                         THEN Ret(d, c, TRUE, FALSE)
                         ELSE Ret(PutIn(d, "camera", "fits_fill",
                                        (value * 100) \div c.EXPECTED_FITS.value),
                                  [c EXCEPT !.EXPECTED_FITS = NoExpected], FALSE, FALSE)
                    ELSE Ret(d, c, FALSE, FALSE)
               [] OTHER -> Ret(d, c, FALSE, FALSE)
    IN  IF r.raised THEN r
        ELSE IF r.ctx.LOOKBACK_BUFFER # <<>>
        THEN Ret(PutIn(r.data, "camera", "updated",
                       r.ctx.LOOKBACK_BUFFER[Len(r.ctx.LOOKBACK_BUFFER)]),
                 r.ctx, FALSE, FALSE)
        ELSE r

parse_log_line(line, data, ctx) ==
    LET fresh == DOMAIN data = {}
        d == DefaultSections(data)
        r == CASE line.shape = "event" -> EventLine(d, ctx, line)
               [] line.shape = "summary" -> SummaryLine(d, ctx, line)
               [] OTHER -> Ret(d, ctx, FALSE, FALSE)
    IN  Ret(r.data, r.ctx, r.raised, fresh)

\* ------------------------------------------------------------------------
\* The telemetry store
\* ------------------------------------------------------------------------
\* _last_modified starts as the ISO string _DUMMY_TIME and is afterwards a
\* RFC 2822 string: the two formats are kept apart.
Iso(ts) == [fmt |-> "iso8601", t |-> ts]

timestamp_to_rfc2822(ts) == [fmt |-> "rfc2822", t |-> ts]

UPDATED_KEYS == {"capture", "detections", "camera", "disk"}

RECURSIVE SetMax(_)
SetMax(S) ==
    LET x == CHOOSE y \in S : TRUE
    IN  IF S = {x} THEN x
        ELSE LET m == SetMax(S \ {x}) IN IF x > m THEN x ELSE m

\* max([...]) with the ValueError of an empty list caught (server.py 99-102
\* given a list, 123-126)
MaxOrDummy(S) == IF S = {} THEN DUMMY_TIME ELSE SetMax(S)

\* server.py 100: every section present must have 'updated' (KeyError)
UpdatedMissing(d) ==
    \E k \in UPDATED_KEYS : Has(d, k) /\ ~Has(d[k], "updated")

UpdatedAll(d) == {d[k]["updated"] : k \in {x \in UPDATED_KEYS : Has(d, x)}}

\* server.py 124: only the sections that have 'updated'
UpdatedSome(d) ==
    {d[k]["updated"] : k \in {x \in UPDATED_KEYS : Has(d, x) /\ Has(d[x], "updated")}}

InitServer ==
    [data |-> EmptyDict, previous_data |-> <<>>,
     last_modified |-> Iso(DUMMY_TIME),
     previous_last_modified |-> Iso(DUMMY_TIME)]

\* The result of set_data: the store when self._data has been assigned
\* (mid), the store on return (server), the caller's object on return, and
\* whether the call raised (mid = server = the store as the exception left
\* it) and whether it appended to the history.
SetRet(mid, srv, obj, raised, archived) ==
    [mid |-> mid, server |-> srv, obj |-> obj, raised |-> raised, archived |-> archived]

IsEndOfDay(obj) == Has(obj, "end_of_day") /\ obj["end_of_day"]

\* a reset that zeroes the detections only
ResetDetectionsOnly(obj) ==
    Put(obj, "detections",
        [x \in (DOMAIN obj.detections) \cup {"n_meteor", "last_meteor", "n_meteor_final"} |->
            CASE x = "n_meteor" -> 0
              [] x = "last_meteor" -> DUMMY_TIME
              [] x = "n_meteor_final" -> 0
              [] OTHER -> obj.detections[x]])

\* a reset that also zeroes the star count and the next start time
ResetCountersAndMore(obj) ==
    LET cap == [x \in (DOMAIN obj.capture) \cup
                      {"duration_hr", "started", "latest_block", "block_max_age_s",
                       "n_frames_dropped", "latest_all_white"} |->
                  CASE x = "running" -> obj.capture[x]
                    [] x = "updated" -> obj.capture[x]
                    [] x = "duration_hr" -> 0
                    [] x = "block_max_age_s" -> 0
                    [] x = "n_frames_dropped" -> 0
                    [] OTHER -> DUMMY_TIME]
        det == [x \in (DOMAIN obj.detections) \cup
                      {"n_meteor", "last_meteor", "n_meteor_final"} |->
                  CASE x = "updated" -> obj.detections[x]
                    [] x = "last_meteor" -> DUMMY_TIME
                    [] OTHER -> 0]
    IN  Put(Put(obj, "capture", cap), "detections", det)

\* server.py 107-116
ResetCounters(obj) ==
    LET cap == [x \in (DOMAIN obj.capture) \cup
                      {"duration_hr", "started", "latest_block", "block_max_age_s",
                       "n_frames_dropped", "latest_all_white"} |->
                  CASE x = "duration_hr" -> 0
                    [] x = "started" -> DUMMY_TIME
                    [] x = "latest_block" -> DUMMY_TIME
                    [] x = "block_max_age_s" -> 0
                    [] x = "n_frames_dropped" -> 0
                    [] x = "latest_all_white" -> DUMMY_TIME
                    [] OTHER -> obj.capture[x]]
        det == [x \in (DOMAIN obj.detections) \cup
                      {"n_meteor", "last_meteor", "n_meteor_final"} |->
                  CASE x = "n_meteor" -> 0
                    [] x = "last_meteor" -> DUMMY_TIME
                    [] x = "n_meteor_final" -> 0
                    [] OTHER -> obj.detections[x]]
    IN  Put(Put(obj, "capture", cap), "detections", det)

\* the sections stripped only where the counters are reset
StripLevelsWhenStopped(obj) ==
    IF obj["capture"]["running"] THEN obj ELSE Del(Del(obj, "error"), "critical")

\* server.py 118-120
StripLevels(obj) == Del(Del(obj, "error"), "critical")

\* TelemetryServer.set_data of server.py; al: data_obj is self._data
set_data(S, data_obj, al) ==
    IF ~IsEndOfDay(data_obj)
    THEN LET mid == [S EXCEPT !.data = data_obj]
         IN  SetRet(mid,
                    [mid EXCEPT !.last_modified =
                         timestamp_to_rfc2822(MaxOrDummy(UpdatedSome(data_obj)))],
                    data_obj, FALSE, FALSE)
    ELSE LET S1 == [S EXCEPT !.previous_data =
                        DequeAppend(S.previous_data, S.data, max_history)]
         IN  IF UpdatedMissing(S.data)
             THEN SetRet(S1, S1, data_obj, TRUE, TRUE)
             ELSE LET obj1 == Del(data_obj, "end_of_day")
                      S2 == [S1 EXCEPT
                               !.previous_last_modified =
                                   timestamp_to_rfc2822(MaxOrDummy(UpdatedAll(S.data))),
                               !.data = IF al THEN obj1 ELSE S.data]
                  IN  IF ~Has(obj1, "capture") \/ ~Has(obj1["capture"], "running")
                         \/ (~obj1["capture"]["running"] /\ ~Has(obj1, "detections"))
                      THEN SetRet(S2, S2, obj1, TRUE, TRUE)
                      ELSE LET obj2 == IF ~obj1["capture"]["running"]
                                       THEN ResetCounters(obj1)
                                       ELSE obj1
                               obj3 == StripLevels(obj2)
                               mid == [S2 EXCEPT !.data = obj3]
                           IN  SetRet(mid,
                                      [mid EXCEPT !.last_modified =
                                           timestamp_to_rfc2822(
                                               MaxOrDummy(UpdatedSome(obj3)))],
                                      obj3, FALSE, TRUE)

\* RMS_telemetry.py 290-295: 'started' is only annotated (line 292), not
\* assigned
ScriptReset(obj) ==
    LET det == [x \in (DOMAIN obj.detections) \cup
                      {"n_meteor", "last_meteor", "n_meteor_final"} |->
                  CASE x = "n_meteor" -> 0
                    [] x = "last_meteor" -> DUMMY_TIME
                    [] x = "n_meteor_final" -> 0
                    [] OTHER -> obj.detections[x]]
    IN  Put(PutIn(obj, "capture", "duration_hr", 0), "detections", det)

\* TelemetryServer.set_data of RMS_telemetry.py (no lock, no last-modified)
script_set_data(S, data_obj, al) ==
    IF ~IsEndOfDay(data_obj)
    THEN LET mid == [S EXCEPT !.data = data_obj]
         IN  SetRet(mid, mid, data_obj, FALSE, FALSE)
    ELSE LET S1 == [S EXCEPT !.previous_data =
                        DequeAppend(S.previous_data, S.data, SCRIPT_HISTORY)]
             obj1 == Del(data_obj, "end_of_day")
             S2 == [S1 EXCEPT !.data = IF al THEN obj1 ELSE S.data]
         IN  IF ~Has(obj1, "capture") \/ ~Has(obj1["capture"], "running")
                \/ (~obj1["capture"]["running"] /\ ~Has(obj1, "detections"))
             THEN SetRet(S2, S2, obj1, TRUE, TRUE)
             ELSE LET obj2 == IF ~obj1["capture"]["running"]
                              THEN ScriptReset(obj1)
                              ELSE obj1
                      mid == [S2 EXCEPT !.data = obj2]
                  IN  SetRet(mid, mid, obj2, FALSE, TRUE)

\* get_previous_dates (server.py 138-153): the date of capture.started
DateOf(ts) == ts \div DAY

\* the dates listed newest first
RECURSIVE get_previous_dates_reversed(_)
get_previous_dates_reversed(prev) ==
    IF prev = <<>> THEN <<>>
    ELSE LET entry == Head(prev)
             rest == get_previous_dates_reversed(Tail(prev))
         IN  IF ~Has(entry, "capture") THEN rest
             ELSE IF ~Has(entry["capture"], "started") THEN rest
             ELSE rest \o <<DateOf(entry["capture"]["started"])>>

RECURSIVE get_previous_dates(_)
get_previous_dates(prev) ==
    IF prev = <<>> THEN <<>>
    ELSE LET entry == Head(prev)
             rest == get_previous_dates(Tail(prev))
         IN  IF ~Has(entry, "capture") THEN rest
             ELSE IF ~Has(entry["capture"], "started") THEN rest
             ELSE <<DateOf(entry["capture"]["started"])>> \o rest

\* get_previous_data (server.py 155-171): [found, raised, doc]
PrevRet(found, raised, doc) == [found |-> found, raised |-> raised, doc |-> doc]

\* a lookup that reports an unmatched date with a result of its own
RECURSIVE FindDateDistinct(_, _)
FindDateDistinct(prev, date) ==
    IF prev = <<>> THEN PrevRet(FALSE, FALSE, [not_found |-> TRUE])
    ELSE LET entry == Head(prev)
         IN  IF ~Has(entry, "capture") \/ ~Has(entry["capture"], "started")
             THEN PrevRet(FALSE, TRUE, EmptyDict)
             ELSE IF DateOf(entry["capture"]["started"]) = date
             THEN PrevRet(TRUE, FALSE, entry)
             ELSE FindDateDistinct(Tail(prev), date)

RECURSIVE FindDate(_, _)
FindDate(prev, date) ==
    IF prev = <<>> THEN PrevRet(FALSE, FALSE, EmptyDict)
    ELSE LET entry == Head(prev)
         IN  IF ~Has(entry, "capture") \/ ~Has(entry["capture"], "started")
             THEN PrevRet(FALSE, TRUE, EmptyDict)
             ELSE IF DateOf(entry["capture"]["started"]) = date
             THEN PrevRet(TRUE, FALSE, entry)
             ELSE FindDate(Tail(prev), date)

NoDate == -1

get_previous_data(prev, date) ==
    IF prev = <<>> THEN PrevRet(FALSE, FALSE, EmptyDict)
    ELSE IF date = NoDate THEN PrevRet(TRUE, FALSE, prev[Len(prev)])
    ELSE FindDate(prev, date)

\* ------------------------------------------------------------------------
\* timed_lru_cache (utils.py 191-211)
\* ------------------------------------------------------------------------
\* The wrapped function reads something outside (a file, /proc): its result
\* for an argument depends on the state of the world when it is computed.
Keys == {1, 2, 3}

func(key, world) == [of |-> key, at |-> world]

Cached(entries, key) == \E i \in 1..Len(entries) : entries[i].key = key

EntryOf(entries, key) == CHOOSE i \in 1..Len(entries) : entries[i].key = key

\* functools.lru_cache(maxsize): entries from the least to the most recently
\* used; a hit moves the entry to the end, a miss evicts the first entry
\* when the cache is full
lru_cache(entries, key, world, maxsize) ==
    IF Cached(entries, key)
    THEN LET i == EntryOf(entries, key)
         IN  [entries |-> RemoveAt(entries, i) \o <<entries[i]>>,
              result |-> entries[i].value, hit |-> TRUE]
    ELSE LET e == [key |-> key, value |-> func(key, world)]
             kept == IF Len(entries) >= maxsize THEN Tail(entries) ELSE entries
         IN  [entries |-> Append(kept, e), result |-> e.value, hit |-> FALSE]

\* an expiry test that lets the call at the expiration time itself through
ExpiredLate(now, expiration) == now > expiration

\* utils.py 205
Expired(now, expiration) == now >= expiration

\* no result has been computed for the argument
NoBirth == -1

NoCacheCall ==
    [called |-> FALSE, key |-> 0, result |-> func(0, 0), hit |-> FALSE,
     before |-> <<>>, exp_before |-> 0, t1 |-> 0, t2 |-> 0, world |-> 0,
     born |-> NoBirth]

\* utils.py 198-200: the decorator is applied at time 0
\* born: when the wrapped function last computed a result for each argument
InitCache ==
    [entries |-> <<>>, expiration |-> 0 + CacheSeconds, now |-> 0, world |-> 0,
     born |-> [k \in Keys |-> NoBirth], last |-> NoCacheCall]

\* a wrapper that moves the expiration on without clearing the cache
wrapperNoClear(c, key, t2) ==
    LET expired == Expired(c.now, c.expiration)
        expiration1 == IF expired THEN t2 + CacheSeconds ELSE c.expiration
        r == lru_cache(c.entries, key, c.world, CacheSize)
    IN  [entries |-> r.entries, expiration |-> expiration1, now |-> t2,
         world |-> c.world,
         born |-> IF r.hit THEN c.born ELSE [c.born EXCEPT ![key] = t2],
         last |-> [called |-> TRUE, key |-> key, result |-> r.result, hit |-> r.hit,
                   before |-> c.entries, exp_before |-> c.expiration,
                   t1 |-> c.now, t2 |-> t2, world |-> c.world,
                   born |-> c.born[key]]]

\* utils.py 203-208: the clock is read at t1 for the test and at t2 for the
\* new expiration
wrapper(c, key, t2) ==
    LET expired == Expired(c.now, c.expiration)
        entries0 == IF expired THEN <<>> ELSE c.entries
        expiration1 == IF expired THEN t2 + CacheSeconds ELSE c.expiration
        r == lru_cache(entries0, key, c.world, CacheSize)
    IN  [entries |-> r.entries, expiration |-> expiration1, now |-> t2,
         world |-> c.world,
         born |-> IF r.hit THEN c.born ELSE [c.born EXCEPT ![key] = t2],
         last |-> [called |-> TRUE, key |-> key, result |-> r.result, hit |-> r.hit,
                   before |-> c.entries, exp_before |-> c.expiration,
                   t1 |-> c.now, t2 |-> t2, world |-> c.world,
                   born |-> c.born[key]]]

\* ------------------------------------------------------------------------
\* State
\* ------------------------------------------------------------------------
VARIABLES
    impl,       \* the TelemetryServer class in use: "server.py" or "RMS_telemetry.py"
    nlogs,      \* number of log files the polling glob matches
    log,        \* lines of the newest of them
    written,    \* lines written so far, to any file (the clock of the log)
    ctx,        \* parse_log_line's module-level state
    server,     \* _data, _previous_data, _last_modified, _previous_last_modified
    lock,       \* holder of TelemetryServer._lock: "free", "main", "reader"
    pc,         \* where the main thread is
    data,       \* the main thread's data
    alias,      \* data is the very object server._data
    batch,      \* lines of the current tail still to parse
    nfiles,     \* old log files opened by the start-up load
    polls,      \* polling cycles begun
    resp,       \* what the last call of a request handler returned
    fed,        \* history: file and position of each complete line the polling
                \* loop has handed to parse_log_line
    installed,  \* history: documents that were current at the return of a set_data
    last_call,  \* history: the last set_data call
    last_parse, \* history: the last parse_log_line call
    tally,      \* history: what has been written to the logs
    cache       \* a function wrapped by timed_lru_cache, and the clock

vars == <<impl, nlogs, log, written, ctx, server, lock, pc, data, alias, batch,
          nfiles, polls, resp, fed, installed, last_call, last_parse, tally,
          cache>>

STATION == "XX0001"

NoResp ==
    [op |-> "none", doc |-> EmptyDict, found |-> FALSE, raised |-> FALSE,
     dates |-> <<>>, lm |-> Iso(DUMMY_TIME), midbatch |-> FALSE, midset |-> FALSE,
     date |-> NoDate]

NoCall ==
    [called |-> FALSE, before |-> EmptyDict, after |-> EmptyDict, current |-> EmptyDict,
     archived |-> FALSE, entry |-> EmptyDict, raised |-> FALSE, returned |-> FALSE,
     aliased |-> FALSE, polling |-> FALSE]

NoParse ==
    [called |-> FALSE, line |-> NoiseLine, before |-> EmptyDict, after |-> EmptyDict,
     raised |-> FALSE, lookback |-> <<>>]

\* run: a 'Starting capture' has been written and no 'Next start time'
\* since; boundaries: 'Next start time' lines that ended a run; archived:
\* appends to the history; rotations: log files created; counted: the
\* 'detected meteors' lines parsed since the last 'Starting capture' was
\* parsed; abandoned: a parse_log_line call of the driver has raised;
\* current: the store's document when set_data last returned
InitTally ==
    [run |-> FALSE, boundaries |-> 0, archived |-> 0, rotations |-> 0,
     counted |-> {}, abandoned |-> FALSE, current |-> EmptyDict]

IsStart(l) == l.mod = "StartCapture" /\ l.msg = "Starting capture"

IsNextStart(l) == l.mod = "StartCapture" /\ l.msg = "Next start time:"

IsMeteors(l) == l.mod = "DetectStarsAndMeteors" /\ l.msg = "detected meteors:"

Wrote(t, l) ==
    CASE IsStart(l) -> [t EXCEPT !.run = TRUE]
      [] IsNextStart(l) ->
            [t EXCEPT !.run = FALSE,
                      !.boundaries = IF t.run THEN @ + 1 ELSE @]
      [] OTHER -> t

Parsed(t, l, r) ==
    IF r.raised THEN [t EXCEPT !.abandoned = TRUE]
    ELSE CASE IsStart(l) -> [t EXCEPT !.counted = {}]
           [] IsMeteors(l) -> [t EXCEPT !.counted = @ \cup {l}]
           [] OTHER -> t

RECURSIVE SumN(_)
SumN(S) ==
    IF S = {} THEN 0
    ELSE LET l == CHOOSE x \in S : TRUE IN l.a + SumN(S \ {l})

\* ------------------------------------------------------------------------
\* The lines the environment writes
\* ------------------------------------------------------------------------
\* Every message shape log.py tests for, at time ts
AllLines(ts) ==
    { Ev(ts, "INFO", "StartCapture", "Starting capture", 6, 5),
      Ev(ts, "INFO", "StartCapture", "Ending capture...", 0, 0),
      Ev(ts, "INFO", "StartCapture", "Next start time:", ts + DAY, 0),
      Ev(ts, "INFO", "EventMonitor", "Next Capture start", 2, 0),
      Ev(ts, "INFO", "BufferedCapture", "Block's max frame age:", 1, 1),
      Ev(ts, "INFO", "VideoExtraction", "frames are all white", 0, 0),
      Ev(ts, "INFO", "StartCapture", "Starting capture", 3, 5),
      Ev(ts, "INFO", "BufferedCapture", "Block's max frame age:", 0, 0),
      Ev(ts, "INFO", "DetectStarsAndMeteors", "Detected stars:", 42, 0),
      Ev(ts, "INFO", "DetectStarsAndMeteors", "Detected stars:", 7, 0),
      Ev(ts, "INFO", "MLFilter", "FTPdetectinfo filtered,", 0, 0),
      Ev(ts, "INFO", "DetectStarsAndMeteors", "detected meteors:", 1, 0),
      Ev(ts, "INFO", "DetectStarsAndMeteors", "detected meteors:", 0, 0),
      Ev(ts, "INFO", "MLFilter", "FTPdetectinfo filtered,", 1, 0),
      Ev(ts, "INFO", "Reprocess", "Astrometric calibration", 1, 0),
      Ev(ts, "INFO", "Reprocess", "Astrometric calibration", 0, 0),
      Ev(ts, "INFO", "UploadManager", "Starting upload of", 1, 0),
      Ev(ts, "INFO", "UploadManager", "Upload successful!", 0, 0),
      Ev(ts, "ERROR", "Other", "", 0, 0),
      Ev(ts, "CRITICAL", "Other", "", 0, 0),
      Ev(ts, "ERROR", "UploadManager", "", 0, 0),
      Ev(ts, "INFO", "Other", "", 0, 0),
      Sm("camera_lens", 4), Sm("camera_fov_h", 88), Sm("jitter_quality", 9),
      Sm("photometry_good", 1), Sm("photometry_good", 0),
      Sm("total_expected_fits", 0), Sm("total_expected_fits", 4),
      Sm("total_fits", 3), Sm("clock_error_seconds", 0),
      NoiseLine }

\* The lines of the log files of the driver's runs
DriverLines(ts) ==
    { Ev(ts, "INFO", "StartCapture", "Starting capture", 6, 5),
      Ev(ts, "INFO", "StartCapture", "Ending capture...", 0, 0),
      Ev(ts, "INFO", "StartCapture", "Next start time:", ts + DAY, 0),
      Ev(ts, "INFO", "DetectStarsAndMeteors", "detected meteors:", 1, 0),
      Ev(ts, "INFO", "UploadManager", "Upload successful!", 0, 0),
      Ev(ts, "ERROR", "Other", "", 0, 0),
      Sm("camera_lens", 4) }

\* ------------------------------------------------------------------------
\* Initial states
\* ------------------------------------------------------------------------
InitCommon ==
    /\ nlogs = 0
    /\ log = <<>>
    /\ written = 0
    /\ ctx = InitCtx
    /\ server = InitServer
    /\ lock = "free"
    /\ data = EmptyDict
    /\ batch = <<>>
    /\ nfiles = 0
    /\ polls = 0
    /\ resp = NoResp
    /\ fed = <<>>
    /\ installed = {EmptyDict}
    /\ last_call = NoCall
    /\ last_parse = NoParse
    /\ tally = InitTally
    /\ cache = InitCache

\* RMS_telemetry.py 442-443 with the store of server.py: data is a copy
Init ==
    /\ InitCommon
    /\ impl = "server.py"
    /\ pc = "load"
    /\ alias = FALSE

\* RMS_telemetry.py 442-443 with its own store: get_data returns self._data
InitScript ==
    /\ InitCommon
    /\ impl = "RMS_telemetry.py"
    /\ pc = "load"
    /\ alias = TRUE

\* parse_log_line called on its own, starting without a document
InitParse ==
    /\ InitCommon
    /\ impl = "server.py"
    /\ pc = "unit"
    /\ alias = FALSE

\* ------------------------------------------------------------------------
\* Helpers of the actions
\* ------------------------------------------------------------------------
\* the newest entry of the history is the live object too (an append that
\* does not copy)
SyncSharedEntry(S, obj, al) ==
    IF ~al THEN S
    ELSE IF S.previous_data = <<>> THEN [S EXCEPT !.data = obj]
    ELSE [S EXCEPT !.data = obj, !.previous_data[Len(S.previous_data)] = obj]

\* a mutation of data shows in server._data when they are one object
Sync(S, obj, al) == IF al THEN [S EXCEPT !.data = obj] ELSE S

\* data = parse_log_line(line, data=data): on an exception data keeps the
\* object it named, mutated as far as the call got
Rebound(r, old) == IF r.fresh /\ r.raised THEN old ELSE r.data

ParseRecord(l, before, r, c) ==
    [called |-> TRUE, line |-> l, before |-> before,
     after |-> IF r.fresh /\ r.raised THEN before ELSE r.data,
     raised |-> r.raised, lookback |-> c.LOOKBACK_BUFFER]

SetData(S, obj, al) ==
    IF impl = "server.py" THEN set_data(S, obj, al) ELSE script_set_data(S, obj, al)

CallRecord(S, obj, al, r, polling, returned) ==
    [called |-> TRUE, before |-> obj, after |-> r.obj, current |-> tally.current,
     archived |-> r.archived,
     entry |-> IF r.archived
               THEN r.mid.previous_data[Len(r.mid.previous_data)]
               ELSE EmptyDict,
     raised |-> r.raised, returned |-> returned, aliased |-> al, polling |-> polling]

Archived(t, r) == [t EXCEPT !.archived = IF r.archived THEN @ + 1 ELSE @]

Returned(t, r) ==
    IF r.raised THEN Archived(t, r)
    ELSE [Archived(t, r) EXCEPT !.current = r.server.data]

\* subprocess.check_output(['tail', '-n100', logcurr]).split('\n'): the
\* last lines of the file and the empty string after the final newline
TailOf(lines) ==
    (IF Len(lines) > TAIL_LINES
     THEN SubSeq(lines, Len(lines) - TAIL_LINES + 1, Len(lines))
     ELSE lines) \o <<NoiseLine>>

\* get_disk_info(log_dir, data=data) (RMS_telemetry.py 159-193): 'disk' is
\* added, then datetime, which the script does not import, raises inside
\* the try that catches only CalledProcessError
get_disk_info(d) == IF Has(d, "disk") THEN d ELSE Put(d, "disk", EmptyDict)

\* The server thread runs; resp holds the result of the one handler call
\* followed since the main thread's last step.
Serving == pc \in {"idle", "parsing", "set_data", "store"} /\ resp = NoResp

\* ------------------------------------------------------------------------
\* The start-up load of the old logs (RMS_telemetry.py 462-491)
\* ------------------------------------------------------------------------
\* lines 474-476: the next oldest log_*.log is opened
LoadOpenFile ==
    /\ pc = "load"
    /\ nfiles < MaxOldFiles
    /\ data' = Put(data, "station_id", STATION)
    /\ server' = Sync(server, data', alias)
    /\ pc' = "load_file"
    /\ nfiles' = nfiles + 1
    /\ resp' = NoResp
    /\ UNCHANGED <<cache, impl, nlogs, log, written, ctx, lock, alias, batch, polls, fed, installed, last_call, last_parse, tally>>

\* lines 479-483: one line of the file; an exception is printed and the
\* loop goes on with the next line
LoadLine ==
    /\ pc = "load_file"
    /\ written < MaxLines
    /\ \E l \in DriverLines(written + 1) :
          LET r == parse_log_line(l, data, ctx)
          IN  /\ data' = Rebound(r, data)
              /\ ctx' = r.ctx
              /\ alias' = (alias /\ ~r.fresh)
              /\ server' = Sync(server, data', alias')
              /\ last_parse' = ParseRecord(l, data, r, ctx)
              /\ tally' = Parsed(Wrote(tally, l), l, r)
    /\ written' = written + 1
    /\ resp' = NoResp
    /\ UNCHANGED <<cache, impl, nlogs, log, lock, pc, batch, nfiles, polls, fed,
                   installed, last_call>>

\* the set_data calls of the load are not in a try: an exception ends the
\* process before the server thread is started
LoadSetData(next) ==
    LET r == SetData(server, data, alias)
    IN  /\ server' = r.server
        /\ data' = r.obj
        /\ alias' = (alias \/ ~r.raised)
        /\ pc' = IF r.raised THEN "crashed" ELSE next
        /\ installed' = IF r.raised THEN installed ELSE installed \cup {r.server.data}
        /\ last_call' = CallRecord(server, data, alias, r, FALSE, ~r.raised)
        /\ tally' = Returned(tally, r)

\* line 485: the file has been read
LoadCloseFile ==
    /\ pc = "load_file"
    /\ LoadSetData("load")
    /\ resp' = NoResp
    /\ UNCHANGED <<cache, impl, nlogs, log, written, ctx, lock, batch, nfiles, polls, fed, last_parse>>

\* lines 491-492: no file is left; the server thread is started
LoadDone ==
    /\ pc = "load"
    /\ LoadSetData("idle")
    /\ resp' = NoResp
    /\ UNCHANGED <<cache, impl, nlogs, log, written, ctx, lock, batch, nfiles, polls, fed, last_parse>>

\* ------------------------------------------------------------------------
\* The log directory
\* ------------------------------------------------------------------------
\* a new file becomes the newest one the polling glob matches (the first
\* one, or one that follows a file already written to)
Rotate ==
    /\ pc = "idle"
    /\ tally.rotations < MaxRotations
    /\ nlogs = 0 \/ log # <<>>
    /\ nlogs' = nlogs + 1
    /\ log' = <<>>
    /\ tally' = [tally EXCEPT !.rotations = @ + 1]
    /\ resp' = NoResp
    /\ UNCHANGED <<cache, impl, written, ctx, server, lock, pc, data, alias, batch, nfiles,
                   polls, fed, installed, last_call, last_parse>>

\* a complete line is appended to the newest file
WriteLine ==
    /\ pc = "idle"
    /\ nlogs > 0
    /\ written < MaxLines
    /\ \E l \in DriverLines(written + 1) :
          /\ log' = Append(log, l)
          /\ tally' = Wrote(tally, l)
    /\ written' = written + 1
    /\ resp' = NoResp
    /\ UNCHANGED <<cache, impl, nlogs, ctx, server, lock, pc, data, alias, batch, nfiles,
                   polls, fed, installed, last_call, last_parse>>

\* ------------------------------------------------------------------------
\* The polling loop (RMS_telemetry.py 496-539)
\* ------------------------------------------------------------------------
\* lines 500-503: no log file yet
PollNoLog ==
    /\ pc = "idle"
    /\ nlogs = 0
    /\ resp' = NoResp
    /\ UNCHANGED <<cache, impl, polls, nlogs, log, written, ctx, server, lock, pc, data, alias,
                   batch, nfiles, fed, installed, last_call, last_parse, tally>>

\* lines 512, 529-530: tail fails and the cycle is given up
PollTailFails ==
    /\ pc = "idle"
    /\ nlogs > 0
    /\ resp' = NoResp
    /\ UNCHANGED <<cache, impl, polls, nlogs, log, written, ctx, server, lock, pc, data, alias,
                   batch, nfiles, fed, installed, last_call, last_parse, tally>>

\* lines 509-516: the tail is taken and data is fetched from the store
PollBegin ==
    /\ pc = "idle"
    /\ nlogs > 0
    /\ polls < MaxPolls
    /\ lock = "free"
    /\ polls' = polls + 1
    /\ batch' = TailOf(log)
    /\ alias' = (impl = "RMS_telemetry.py")
    /\ data' = Put(server.data, "station_id", STATION)
    /\ server' = Sync(server, data', alias')
    /\ pc' = "parsing"
    /\ resp' = NoResp
    /\ UNCHANGED <<cache, impl, nlogs, log, written, ctx, lock, nfiles, fed,
                   installed, last_call, last_parse, tally>>

\* lines 518-519, 531-532: the next line of the tail; an exception ends
\* the cycle without set_data
ParseStep ==
    /\ pc = "parsing"
    /\ batch # <<>>
    /\ LET l == Head(batch)
           r == parse_log_line(l, data, ctx)
       IN  /\ data' = Rebound(r, data)
           /\ ctx' = r.ctx
           /\ alias' = (alias /\ ~r.fresh)
           /\ server' = Sync(server, data', alias')
           /\ last_parse' = ParseRecord(l, data, r, ctx)
           /\ fed' = IF Len(batch) = 1 THEN fed
                      ELSE Append(fed, [file |-> nlogs,
                                        pos |-> Len(log) - Len(batch) + 2])
           /\ tally' = Parsed(tally, l, r)
           /\ pc' = IF r.raised THEN "idle" ELSE "parsing"
           /\ batch' = IF r.raised THEN <<>> ELSE Tail(batch)
    /\ resp' = NoResp
    /\ UNCHANGED <<cache, impl, nlogs, log, written, lock, nfiles, polls, installed,
                   last_call>>

\* lines 521-527 with the store of server.py: the disk poll, then set_data
\* up to the assignment of self._data, under the lock
PollSetData ==
    /\ pc = "parsing"
    /\ batch = <<>>
    /\ impl = "server.py"
    /\ lock = "free"
    /\ LET obj == get_disk_info(data)
           r == set_data(Sync(server, obj, alias), obj, alias)
       IN  /\ server' = r.mid
           /\ data' = r.obj
           /\ lock' = IF r.raised THEN "free" ELSE "main"
           /\ pc' = IF r.raised THEN "idle" ELSE "set_data"
           /\ last_call' = CallRecord(Sync(server, obj, alias), obj, alias, r, TRUE, FALSE)
           /\ tally' = Archived(tally, r)
    /\ resp' = NoResp
    /\ UNCHANGED <<cache, impl, nlogs, log, written, ctx, alias, batch, nfiles, polls, fed, installed, last_parse>>

\* server.py 123-128: the cached last-modified value, and the lock is
\* released
SetDataEnd ==
    /\ pc = "set_data"
    /\ lock = "main"
    /\ server' = [server EXCEPT !.last_modified =
                      timestamp_to_rfc2822(MaxOrDummy(UpdatedSome(server.data)))]
    /\ lock' = "free"
    /\ pc' = "idle"
    /\ alias' = TRUE
    /\ installed' = installed \cup {server.data}
    /\ last_call' = [last_call EXCEPT !.returned = TRUE]
    /\ tally' = [tally EXCEPT !.current = server.data]
    /\ resp' = NoResp
    /\ UNCHANGED <<cache, impl, nlogs, log, written, ctx, data, batch, nfiles, polls, fed, last_parse>>

\* lines 521-527 with the store of RMS_telemetry.py
PollSetDataScript ==
    /\ pc = "parsing"
    /\ batch = <<>>
    /\ impl = "RMS_telemetry.py"
    /\ LET obj == get_disk_info(data)
           r == script_set_data(Sync(server, obj, alias), obj, alias)
       IN  /\ server' = r.server
           /\ data' = r.obj
           /\ alias' = (alias \/ ~r.raised)
           /\ installed' = IF r.raised THEN installed ELSE installed \cup {r.server.data}
           /\ last_call' = CallRecord(Sync(server, obj, alias), obj, alias, r, TRUE, ~r.raised)
           /\ tally' = Returned(tally, r)
    /\ pc' = "idle"
    /\ resp' = NoResp
    /\ UNCHANGED <<cache, impl, nlogs, log, written, ctx, lock, batch, nfiles, polls, fed, last_parse>>

\* ------------------------------------------------------------------------
\* The request handlers' calls into the store
\* ------------------------------------------------------------------------
Answer(op) ==
    [NoResp EXCEPT !.op = op, !.midbatch = (pc = "parsing"), !.midset = (pc = "set_data")]

\* server.py 130-136: a deep copy, under the lock
GetData ==
    /\ Serving
    /\ impl = "server.py"
    /\ lock = "free"
    /\ resp' = [Answer("get_data") EXCEPT !.doc = server.data]
    /\ UNCHANGED <<cache, impl, nlogs, log, written, ctx, server, lock, pc, data, alias,
                   batch, nfiles, polls, fed, installed, last_call, last_parse, tally>>

\* RMS_telemetry.py 298-299, 353: self._data itself, serialised by the
\* handler as it is when read
GetDataScript ==
    /\ Serving
    /\ impl = "RMS_telemetry.py"
    /\ resp' = [Answer("get_data") EXCEPT !.doc = server.data]
    /\ UNCHANGED <<cache, impl, nlogs, log, written, ctx, server, lock, pc, data, alias,
                   batch, nfiles, polls, fed, installed, last_call, last_parse, tally>>

\* server.py 155-171 and RMS_telemetry.py 301-309: the entry itself
GetPreviousData ==
    /\ Serving
    /\ impl = "server.py" => lock = "free"
    /\ \E date \in {NoDate, 0, 1} :
          LET r == get_previous_data(server.previous_data, date)
          IN  resp' = [Answer("get_previous_data") EXCEPT
                          !.doc = r.doc, !.found = r.found, !.raised = r.raised,
                          !.date = date]
    /\ UNCHANGED <<cache, impl, nlogs, log, written, ctx, server, lock, pc, data, alias,
                   batch, nfiles, polls, fed, installed, last_call, last_parse, tally>>

\* server.py 138-153
GetPreviousDates ==
    /\ Serving
    /\ impl = "server.py"
    /\ lock = "free"
    /\ resp' = [Answer("get_previous_dates") EXCEPT
                   !.dates = get_previous_dates(server.previous_data)]
    /\ UNCHANGED <<cache, impl, nlogs, log, written, ctx, server, lock, pc, data, alias,
                   batch, nfiles, polls, fed, installed, last_call, last_parse, tally>>

\* server.py 74-80: the property reads the attribute without the lock
LastModified ==
    /\ Serving
    /\ impl = "server.py"
    /\ resp' = [Answer("last_modified") EXCEPT !.lm = server.last_modified]
    /\ UNCHANGED <<cache, impl, nlogs, log, written, ctx, server, lock, pc, data, alias,
                   batch, nfiles, polls, fed, installed, last_call, last_parse, tally>>

\* server.py 82-88
PreviousLastModified ==
    /\ Serving
    /\ impl = "server.py"
    /\ resp' = [Answer("previous_last_modified") EXCEPT
                   !.lm = server.previous_last_modified]
    /\ UNCHANGED <<cache, impl, nlogs, log, written, ctx, server, lock, pc, data, alias,
                   batch, nfiles, polls, fed, installed, last_call, last_parse, tally>>

\* ------------------------------------------------------------------------
\* parse_log_line called on its own
\* ------------------------------------------------------------------------
ParseCall ==
    /\ pc = "unit"
    /\ written < MaxCalls
    /\ \E l \in AllLines(written + 1) :
          LET r == parse_log_line(l, data, ctx)
          IN  /\ data' = Rebound(r, data)
              /\ ctx' = r.ctx
              /\ last_parse' = ParseRecord(l, data, r, ctx)
    /\ written' = written + 1
    /\ UNCHANGED <<cache, impl, nlogs, log, server, lock, pc, alias, batch, nfiles, polls,
                   resp, fed, installed, last_call, tally>>

\* ------------------------------------------------------------------------
\* set_data called with the documents parse_log_line makes of a night's log
\* ------------------------------------------------------------------------
\* the lines of one file parsed in order (RMS_telemetry.py 479-481)
RECURSIVE ParseAll(_, _, _)
ParseAll(lines, d, c) ==
    IF lines = <<>> THEN Ret(d, c, FALSE, FALSE)
    ELSE CHOOSE x \in { IF r.raised THEN r ELSE ParseAll(Tail(lines), r.data, r.ctx) :
                          r \in {parse_log_line(Head(lines), d, c)} } : TRUE

\* night n starts at StoreTime(n): two nights to a calendar date
StoreTime(n) == ((n - 1) \div 2) * DAY + n

\* the logs of night n: a run with one meteor, with or without the
\* camera summary, the end of the capture and the 'Next start time' line
StoreLogs(n) ==
    LET t == StoreTime(n)
        start == <<Ev(t, "INFO", "StartCapture", "Starting capture", 6, 5),
                   Ev(t, "INFO", "DetectStarsAndMeteors", "detected meteors:", 1, 0)>>
        summary == <<Sm("camera_lens", 4)>>
        ending == <<Ev(t, "INFO", "StartCapture", "Ending capture...", 0, 0)>>
        rollover == <<Ev(t, "INFO", "StartCapture", "Next start time:", t + DAY, 0)>>
    IN  { start \o summary \o rollover,
          start \o summary \o ending \o rollover,
          start \o summary,
          start \o rollover }

StoreDocs(n) ==
    { ParseAll(lines, [station_id |-> STATION], InitCtx).data : lines \in StoreLogs(n) }

InitStore ==
    /\ InitCommon
    /\ impl = "server.py"
    /\ pc = "store"
    /\ alias = FALSE

\* server.set_data(doc) with a document of the next night
StoreSetData ==
    /\ pc = "store"
    /\ written < MaxStoreCalls
    /\ \E doc \in StoreDocs(written + 1) :
          LET r == set_data(server, doc, FALSE)
          IN  /\ server' = r.server
              /\ data' = r.obj
              /\ alias' = ~r.raised
              /\ last_call' = CallRecord(server, doc, FALSE, r, FALSE, ~r.raised)
              /\ tally' = Returned(tally, r)
    /\ written' = written + 1
    /\ resp' = NoResp
    /\ UNCHANGED <<cache, impl, nlogs, log, ctx, lock, pc, batch, nfiles, polls, fed,
                   installed, last_parse>>

\* ------------------------------------------------------------------------
\* Specifications
\* ------------------------------------------------------------------------
\* The driver of RMS_telemetry.py with the parser of log.py and the store
\* of server.py
Next ==
    \/ LoadOpenFile
    \/ LoadLine
    \/ LoadCloseFile
    \/ LoadDone
    \/ Rotate
    \/ WriteLine
    \/ PollNoLog
    \/ PollTailFails
    \/ PollBegin
    \/ ParseStep
    \/ PollSetData
    \/ SetDataEnd
    \/ GetData
    \/ GetPreviousData
    \/ GetPreviousDates
    \/ LastModified
    \/ PreviousLastModified

Spec == Init /\ [][Next]_vars

\* The same driver and parser with the store RMS_telemetry.py defines
NextScript ==
    \/ LoadOpenFile
    \/ LoadLine
    \/ LoadCloseFile
    \/ LoadDone
    \/ Rotate
    \/ WriteLine
    \/ PollNoLog
    \/ PollTailFails
    \/ PollBegin
    \/ ParseStep
    \/ PollSetDataScript
    \/ GetDataScript
    \/ GetPreviousData

SpecScript == InitScript /\ [][NextScript]_vars

Others == <<impl, nlogs, log, written, ctx, server, lock, pc, data, alias, batch,
            nfiles, polls, resp, fed, installed, last_call, last_parse, tally>>

InitCacheSpec ==
    /\ InitCommon
    /\ impl = "server.py"
    /\ pc = "cache"
    /\ alias = FALSE

\* time passes
CacheTick ==
    /\ pc = "cache"
    /\ cache.now < MaxTime
    /\ cache' = [cache EXCEPT !.now = @ + 1]
    /\ UNCHANGED Others

\* what the wrapped function reads changes
CacheWorld ==
    /\ pc = "cache"
    /\ cache.world < MaxWorld
    /\ cache' = [cache EXCEPT !.world = @ + 1]
    /\ UNCHANGED Others

\* a call of the wrapped function
CacheCall ==
    /\ pc = "cache"
    /\ \E key \in Keys, t2 \in {cache.now, cache.now + 1} :
          /\ t2 <= MaxTime
          /\ cache' = wrapper(cache, key, t2)
    /\ UNCHANGED Others

NextCache == CacheTick \/ CacheWorld \/ CacheCall

SpecCache == InitCacheSpec /\ [][NextCache]_vars

\* The store of server.py alone, with its readers
NextStore ==
    \/ StoreSetData
    \/ GetPreviousData
    \/ GetPreviousDates

SpecStore == InitStore /\ [][NextStore]_vars

\* The parser alone
\* the line parsed last is read again (RMS_telemetry.py 512-519 reads the
\* tail of the same file at every cycle; a log may also repeat a line)
ParseAgain ==
    /\ pc = "unit"
    /\ written < MaxCalls
    /\ last_parse.called
    /\ LET l == last_parse.line
           r == parse_log_line(l, data, ctx)
       IN  /\ data' = Rebound(r, data)
           /\ ctx' = r.ctx
           /\ last_parse' = ParseRecord(l, data, r, ctx)
    /\ written' = written + 1
    /\ UNCHANGED <<cache, impl, nlogs, log, server, lock, pc, alias, batch, nfiles,
                   polls, resp, fed, installed, last_call, tally>>

NextParse == ParseCall \/ ParseAgain

SpecParse == InitParse /\ [][NextParse]_vars

\* ------------------------------------------------------------------------
\* The polling loop of RMS_telemetry.py, one whole cycle to a step, with the
\* parser of log.py and the store of server.py
\* ------------------------------------------------------------------------
\* the store after line 491 with no old log to replay
InitCycle ==
    /\ InitCommon
    /\ impl = "server.py"
    /\ pc = "cycle"
    /\ alias = FALSE

\* the lines of a night: a run begins, counts, ends, the next start is
\* announced, an upload completes
CycleLines(ts) ==
    { Ev(ts, "INFO", "StartCapture", "Starting capture", 6, 5),
      Ev(ts, "INFO", "StartCapture", "Ending capture...", 0, 0),
      Ev(ts, "INFO", "StartCapture", "Next start time:", ts + DAY, 0),
      Ev(ts, "INFO", "DetectStarsAndMeteors", "detected meteors:", 1, 0),
      Ev(ts, "INFO", "UploadManager", "Upload successful!", 0, 0) }

\* a complete line is appended to the log the polling glob matches
CycleWrite ==
    /\ pc = "cycle"
    /\ written < MaxCycleLines
    /\ \E l \in CycleLines(written + 1) :
          /\ log' = Append(log, l)
          /\ tally' = Wrote(tally, l)
    /\ written' = written + 1
    /\ resp' = NoResp
    /\ UNCHANGED <<cache, impl, nlogs, ctx, server, lock, pc, data, alias, batch, nfiles,
                   polls, fed, installed, last_call, last_parse>>

\* lines 515-519: get_data, station_id, the tail parsed line by line
CycleParse == ParseAll(TailOf(log), Put(server.data, "station_id", STATION), ctx)

\* what the parser did in the cycle, from the copy get_data returned to the
\* document the last line parsed left
CycleRecord(p) ==
    [called |-> TRUE, line |-> TailOf(log)[Len(TailOf(log))],
     before |-> Put(server.data, "station_id", STATION), after |-> p.data,
     raised |-> p.raised, lookback |-> ctx.LOOKBACK_BUFFER]

\* lines 531-532: an exception ends the cycle (the copy is dropped, the
\* module globals of log.py keep what the lines did)
CycleAbandoned(p) ==
    [raised |-> TRUE, batch |-> TailOf(log), ctx |-> p.ctx,
     last_parse |-> CycleRecord(p), data |-> p.data, alias |-> FALSE,
     tally |-> [tally EXCEPT !.abandoned = TRUE],
     server |-> server, installed |-> installed, last_call |-> last_call]

\* lines 521-525: the disk poll when it is due
CycleObject(p, due) == IF due THEN get_disk_info(p.data) ELSE p.data

\* line 527: r is what server.set_data(obj) did
CycleInstalled(p, obj, r) ==
    [raised |-> FALSE, batch |-> TailOf(log), ctx |-> p.ctx,
     last_parse |-> CycleRecord(p), data |-> r.obj, alias |-> ~r.raised,
     tally |-> Returned(tally, r),
     server |-> r.server,
     installed |-> IF r.raised THEN installed ELSE installed \cup {r.server.data},
     last_call |-> CallRecord(server, obj, FALSE, r, TRUE, ~r.raised)]

CycleOf(p, due) ==
    IF p.raised THEN CycleAbandoned(p)
    ELSE CHOOSE c \in { CycleInstalled(p, CycleObject(p, due), r) :
                         r \in {set_data(server, CycleObject(p, due), FALSE)} } : TRUE

\* lines 508-532: the values one cycle leaves, given whether the disk poll
\* is due
Cycle(due) == CHOOSE c \in { CycleOf(p, due) : p \in {CycleParse} } : TRUE

\* one cycle of the loop; polls counts the cycles that reached set_data
CyclePoll ==
    /\ pc = "cycle"
    /\ lock = "free"
    /\ \E due \in BOOLEAN :
          \E c \in {Cycle(due)} :
              /\ c.raised \/ polls < MaxCyclePolls
              /\ polls' = IF c.raised THEN polls ELSE polls + 1
              /\ batch' = c.batch
              /\ ctx' = c.ctx
              /\ last_parse' = c.last_parse
              /\ data' = c.data
              /\ alias' = c.alias
              /\ tally' = c.tally
              /\ server' = c.server
              /\ installed' = c.installed
              /\ last_call' = c.last_call
    /\ resp' = NoResp
    /\ UNCHANGED <<cache, impl, nlogs, log, written, lock, pc, nfiles, fed>>

\* the loop is at rest: every cycle it can run is abandoned and leaves
\* things exactly as they are
CycleIdle ==
    \A due \in BOOLEAN :
        \A c \in {Cycle(due)} :
            /\ c.raised
            /\ <<batch, ctx, last_parse, data, alias, tally, server, installed,
                 last_call, resp>> =
               <<c.batch, c.ctx, c.last_parse, c.data, c.alias, c.tally, c.server,
                 c.installed, c.last_call, NoResp>>

NextCycle == CycleWrite \/ CyclePoll

SpecCycle == InitCycle /\ [][NextCycle]_vars

\* ------------------------------------------------------------------------
\* The /latest handler of server.py beside a writer of the store
\* ------------------------------------------------------------------------
InitLatest ==
    /\ InitCommon
    /\ impl = "server.py"
    /\ pc = "latest"
    /\ alias = FALSE

\* the logs of a night, and one that counts stars and meteors, logs an
\* error and a summary line, ends before the rollover and repeats the
\* 'Next start time' line
LatestLogs(n) ==
    LET t == StoreTime(n)
    IN  StoreLogs(n) \cup
        { << Ev(t, "INFO", "StartCapture", "Starting capture", 6, 5),
             Ev(t, "INFO", "DetectStarsAndMeteors", "Detected stars:", 42, 0),
             Ev(t, "INFO", "DetectStarsAndMeteors", "detected meteors:", 1, 0),
             Ev(t, "ERROR", "Other", "", 0, 0),
             Sm("camera_lens", 4),
             Ev(t, "INFO", "StartCapture", "Ending capture...", 0, 0),
             Ev(t, "INFO", "StartCapture", "Next start time:", t + DAY, 0),
             Ev(t, "INFO", "StartCapture", "Next start time:", t + DAY, 0) >> }

LatestDocs(n) ==
    { ParseAll(lines, [station_id |-> STATION], InitCtx).data : lines \in LatestLogs(n) }

\* the writer: server.set_data(doc) with a document of the next night
LatestSetData ==
    /\ pc = "latest"
    /\ written < MaxLatestCalls
    /\ \E doc \in LatestDocs(written + 1) :
          LET r == set_data(server, doc, FALSE)
          IN  /\ server' = r.server
              /\ data' = r.obj
              /\ alias' = ~r.raised
              /\ last_call' = CallRecord(server, doc, FALSE, r, FALSE, ~r.raised)
              /\ tally' = Returned(tally, r)
    /\ written' = written + 1
    /\ UNCHANGED <<cache, impl, nlogs, log, ctx, lock, pc, batch, nfiles, polls, resp,
                   fed, installed, last_parse>>

\* server.py 319: mtime = self.server.last_modified
LatestReadModified ==
    /\ pc = "latest"
    /\ resp.op = "none"
    /\ resp' = [NoResp EXCEPT !.op = "latest_mtime", !.lm = server.last_modified]
    /\ UNCHANGED <<cache, impl, nlogs, log, written, ctx, server, lock, pc, data, alias,
                   batch, nfiles, polls, fed, installed, last_call, last_parse, tally>>

\* server.py 328-337: data = self.server.get_data(), the response is sent
\* with mtime as Last-Modified
LatestGetData ==
    /\ pc = "latest"
    /\ resp.op = "latest_mtime"
    /\ lock = "free"
    /\ resp' = [resp EXCEPT !.op = "latest", !.doc = server.data]
    /\ UNCHANGED <<cache, impl, nlogs, log, written, ctx, server, lock, pc, data, alias,
                   batch, nfiles, polls, fed, installed, last_call, last_parse, tally>>

\* the request is over; the next one can come
LatestDone ==
    /\ pc = "latest"
    /\ resp.op = "latest"
    /\ resp' = NoResp
    /\ UNCHANGED <<cache, impl, nlogs, log, written, ctx, server, lock, pc, data, alias,
                   batch, nfiles, polls, fed, installed, last_call, last_parse, tally>>

NextLatest == LatestSetData \/ LatestReadModified \/ LatestGetData \/ LatestDone

SpecLatest == InitLatest /\ [][NextLatest]_vars

TypeOK ==
    /\ impl \in {"server.py", "RMS_telemetry.py"}
    /\ lock \in {"free", "main", "reader"}
    /\ pc \in {"load", "load_file", "idle", "parsing", "set_data", "crashed", "unit",
              "store", "cache", "cycle", "latest"}
    /\ alias \in BOOLEAN
    /\ written \in 0..(MaxLines + MaxCalls + MaxStoreCalls)
    /\ polls \in 0..MaxPolls
    /\ alias => server.data = data

\* ------------------------------------------------------------------------
\* Properties
\* ------------------------------------------------------------------------
\* server._data is what the main thread last handed to set_data, and no
\* line has been parsed since
Synced == pc \in {"load", "idle"} /\ alias /\ last_call.called /\ last_call.returned

RECURSIVE NoDup(_)
NoDup(q) ==
    IF Len(q) <= 1 THEN TRUE
    ELSE (\A i \in 2..Len(q) : q[i] # q[1]) /\ NoDup(Tail(q))

Initialised(d) ==
    Has(d, "capture") /\ Has(d, "detections") /\ Has(d, "camera") /\ Has(d, "upload")

\* C1: within a capture run, when the lines parsed so far have reached the
\* store and no call has raised, detections.n_meteor of the current
\* document is the sum of the n of the run's 'detected meteors: n' lines,
\* each line counted once.
C1_MeteorSumOnce ==
    (Synced /\ ctx.CAPTURE_STARTED /\ ~tally.abandoned)
        => /\ Has(server.data, "detections")
           /\ Has(server.data["detections"], "n_meteor")
           /\ server.data["detections"]["n_meteor"] = SumN(tally.counted)

\* C2: the history receives at most one entry per 'Next start time' line
\* that ended a run, however many polls follow it.
C2_OneArchivePerBoundary == tally.archived <= tally.boundaries

\* C3: the entry a rollover set_data appends to the history is the document
\* the previous set_data installed, not the incoming one.
C3_ArchivesPrevious ==
    (last_call.called /\ last_call.archived /\ last_call.returned)
        => last_call.entry = last_call.current

\* C4: no line of the log is handed to parse_log_line twice by the polling
\* loop (no call having raised).
C4_FedOnce == ~tally.abandoned => NoDup(fed)

\* C5: parse_log_line never raises.
C5_NeverRaises == last_parse.called => ~last_parse.raised

\* a line neither expression matches, or a summary line whose parameter is
\* none of those lines 228-243 of log.py test for
Unrecognised(l) ==
    \/ l.shape = "noise"
    \/ /\ l.shape = "summary"
       /\ ~IsCameraParam(l.msg)
       /\ l.msg \notin {"jitter_quality", "photometry_good", "total_expected_fits",
                        "total_fits"}

\* C6: a line that matches neither expression, or a summary line whose
\* parameter is not a recognised one, leaves an initialised document as it
\* was.
C6_UnrecognisedIsNoOp ==
    (last_parse.called /\ Unrecognised(last_parse.line) /\ Initialised(last_parse.before))
        => last_parse.after = last_parse.before

\* C7: a document a reader gets from get_data or get_previous_data is the
\* store's document as some completed set_data (or the constructor) left it.
C7_ReadersSeeInstalled ==
    (resp.op = "get_data" \/ (resp.op = "get_previous_data" /\ resp.found))
        => resp.doc \in installed

\* C8: while a thread is inside a store method holding the lock, no other
\* thread reads the current document, the history or the cached
\* last-modified values.
C8_ExclusiveAccess == lock = "main" => resp = NoResp

\* C9: between get_data and the next set_data of a polling cycle, what the
\* driver and the parser do to the document get_data returned does not
\* change the store's current document.
C9_GetDataIsCopy == [][pc' = "parsing" => server'.data = server.data]_vars

\* C10: set_data leaves the caller's document as it was passed in.
C10_ArgumentUntouched ==
    (last_call.called /\ last_call.returned) => last_call.after = last_call.before

\* C11: the history never holds more than max_history entries; an append
\* puts the previous current document at the end and, when the ring is
\* full, evicts the oldest entry; after more than max_history appends the
\* ring holds max_history entries and get_previous_dates gives as many dates.
C11_HistoryBounded ==
    [][/\ Len(server'.previous_data) <= max_history
       /\ tally'.archived # tally.archived =>
              server'.previous_data =
                  (IF Len(server.previous_data) = max_history
                   THEN Tail(server.previous_data)
                   ELSE server.previous_data) \o <<server.data>>
       /\ tally'.archived > max_history =>
              /\ Len(server'.previous_data) = max_history
              /\ Len(get_previous_dates(server'.previous_data)) = max_history]_vars

C11_RingFull ==
    /\ tally.archived > max_history
    /\ Len(server.previous_data) = max_history
    /\ Has(server.previous_data[1], "capture")
    /\ server.previous_data[1]["capture"]["started"] = StoreTime(1)

\* the rollover set_data that has just returned zeroed the counters of the
\* document it was given
CountersReset(c) ==
    /\ c.before["detections"]["n_meteor"] # 0
    /\ c.after["detections"]["n_meteor"] = 0
    /\ c.after["capture"]["started"] = DUMMY_TIME

\* the entry it appended to the history is a run's document
ArchivedRun(c) == Has(c.entry, "capture") /\ Has(c.entry["capture"], "running")

\* C12: a rollover set_data that archives a run's document resets the
\* counters of the incoming document exactly when the archived document
\* had capture.running = False.
C12_ResetIffArchivedStopped ==
    (last_call.called /\ last_call.archived /\ last_call.returned /\ ArchivedRun(last_call))
        => (CountersReset(last_call) <=> ~last_call.entry["capture"]["running"])

\* C12 as the code has it: the counters of the incoming document are reset
\* exactly when the incoming document itself has capture.running = False.
C12_ResetIffIncomingStopped ==
    (last_call.called /\ last_call.archived /\ last_call.returned)
        => (CountersReset(last_call) <=> ~last_call.before["capture"]["running"])

C12_ResetThoughArchivedRunning ==
    /\ last_call.called /\ last_call.archived /\ last_call.returned
    /\ ArchivedRun(last_call)
    /\ last_call.entry["capture"]["running"]
    /\ ~last_call.before["capture"]["running"]
    /\ CountersReset(last_call)

\* data[sec][k] is present and is v
FieldIs(d, sec, k, v) == Has(d, sec) /\ Has(d[sec], k) /\ d[sec][k] = v

\* C13: when the capture was not running at the rollover, the document the
\* rollover set_data leaves as current has its counters at 0 and its
\* timestamps at the dummy time.
C13_StoppedRunIsReset ==
    (/\ last_call.called /\ last_call.archived /\ last_call.returned
     /\ ~last_call.before["capture"]["running"])
        => /\ FieldIs(last_call.after, "detections", "n_meteor", 0)
           /\ FieldIs(last_call.after, "detections", "n_meteor_final", 0)
           /\ FieldIs(last_call.after, "capture", "n_frames_dropped", 0)
           /\ FieldIs(last_call.after, "capture", "started", DUMMY_TIME)
           /\ FieldIs(last_call.after, "capture", "latest_block", DUMMY_TIME)
           /\ FieldIs(last_call.after, "capture", "latest_all_white", DUMMY_TIME)
           /\ FieldIs(last_call.after, "detections", "last_meteor", DUMMY_TIME)

\* the history entry has a capture.started value
WellFormed(entry) == Has(entry, "capture") /\ Has(entry["capture"], "started")

\* the positions of the history entries whose capture.started falls on date
OnDate(prev, date) ==
    { i \in 1..Len(prev) : WellFormed(prev[i]) /\ DateOf(prev[i]["capture"]["started"]) = date }

\* C14: get_previous_data() without a date returns the most recently
\* archived entry; with a date it returns an entry of that date when the
\* history holds one and the not-found outcome otherwise, and never an
\* entry of another date.
C14_LookupByDate ==
    (resp.op = "get_previous_data" /\ server.previous_data # <<>>) =>
        LET prev == server.previous_data
        IN  IF resp.date = NoDate
            THEN /\ ~resp.raised /\ resp.found
                 /\ resp.doc = prev[Len(prev)]
            ELSE IF OnDate(prev, resp.date) # {}
            THEN /\ ~resp.raised /\ resp.found
                 /\ \E i \in OnDate(prev, resp.date) : resp.doc = prev[i]
            ELSE ~resp.raised /\ ~resp.found

\* C15: a date that matches no entry of a non-empty history gives a result
\* different from the one an empty history gives.
C15_NotFoundIsNotEmpty ==
    (/\ resp.op = "get_previous_data" /\ resp.date # NoDate
     /\ server.previous_data # <<>> /\ ~resp.raised /\ ~resp.found)
        => PrevRet(resp.found, resp.raised, resp.doc) # get_previous_data(<<>>, resp.date)

\* C15 as the code has it: a dated lookup that ends without a match returns
\* the very result an empty history gives (None in both cases).
C15_NotFoundSameAsEmpty ==
    (/\ resp.op = "get_previous_data" /\ resp.date # NoDate
     /\ server.previous_data # <<>> /\ ~resp.raised /\ ~resp.found)
        => PrevRet(resp.found, resp.raised, resp.doc) = get_previous_data(<<>>, resp.date)

C15_NotFoundInHistory ==
    /\ resp.op = "get_previous_data" /\ resp.date # NoDate
    /\ ~resp.raised /\ ~resp.found
    /\ Len(server.previous_data) >= 2
    /\ \A i \in 1..Len(server.previous_data) : WellFormed(server.previous_data[i])
    /\ OnDate(server.previous_data, resp.date) = {}

\* the positions of the history entries that have a capture.started value
Dated(prev) == { i \in 1..Len(prev) : WellFormed(prev[i]) }

\* the position of the k-th such entry, counting from the oldest
KthDated(prev, k) ==
    CHOOSE i \in Dated(prev) : Cardinality({ j \in Dated(prev) : j <= i }) = k

\* C16: get_previous_dates returns one date per history entry that has a
\* capture.started value, oldest first, each the calendar date of that
\* capture.started; its length is the number of such entries.
C16_DatesInArchiveOrder ==
    resp.op = "get_previous_dates" =>
        LET prev == server.previous_data
        IN  /\ Len(resp.dates) = Cardinality(Dated(prev))
            /\ \A k \in 1..Len(resp.dates) :
                   resp.dates[k] = DateOf(prev[KthDated(prev, k)]["capture"]["started"])

C16_TwoDatesOneSkipped ==
    /\ resp.op = "get_previous_dates"
    /\ Len(resp.dates) >= 2
    /\ resp.dates[1] < resp.dates[Len(resp.dates)]
    /\ Len(server.previous_data) > Len(resp.dates)

\* C17: a history entry without capture.started is skipped by the dated
\* lookup as it is by get_previous_dates: the lookup does not raise and
\* finds a later well-formed entry of the requested date.
C17_MalformedSkipped ==
    (/\ resp.op = "get_previous_data" /\ resp.date # NoDate
     /\ \E i \in 1..Len(server.previous_data) :
            /\ ~WellFormed(server.previous_data[i])
            /\ \E j \in OnDate(server.previous_data, resp.date) : i < j)
        => /\ ~resp.raised
           /\ resp.found
           /\ \E j \in OnDate(server.previous_data, resp.date) :
                  resp.doc = server.previous_data[j]

IsUploadStart(l) == l.mod = "UploadManager" /\ l.msg = "Starting upload of"

IsUploadDone(l) == l.mod = "UploadManager" /\ l.msg = "Upload successful!"

\* C18: 'Starting upload of <path>' puts basename(path) at the end of
\* upload.attempted; 'Upload successful!' removes the most recently attempted
\* name from upload.attempted and appends it to upload.completed, the other
\* names staying in place.
C18_UploadPairing ==
    last_parse.called =>
        LET l == last_parse.line
            b == last_parse.before
            a == last_parse.after
        IN  /\ IsUploadStart(l) =>
                   /\ ~last_parse.raised
                   /\ a["upload"]["attempted"] # <<>>
                   /\ a["upload"]["attempted"][Len(a["upload"]["attempted"])] = l.a
                   /\ a["upload"]["completed"] = b["upload"]["completed"]
            /\ (IsUploadDone(l) /\ b["upload"]["attempted"] # <<>>) =>
                   LET att == b["upload"]["attempted"]
                   IN  /\ ~last_parse.raised
                       /\ a["upload"]["attempted"] = SubSeq(att, 1, Len(att) - 1)
                       /\ a["upload"]["completed"] =
                              Append(b["upload"]["completed"], att[Len(att)])

IsStars(l) == l.mod = "DetectStarsAndMeteors" /\ l.msg = "Detected stars:"

\* C19: a 'Starting capture for <d> hours' line leaves capture.running true,
\* duration_hr = d, started = the line's timestamp, latest_block and
\* latest_all_white at the dummy time, n_frames_dropped, n_meteor and
\* n_meteor_final at 0 and no capture.next_start; 'Detected stars: s' sets
\* n_star = s, and 'detected meteors: m' on a count of 0 makes n_meteor = m.
C19_StartBeginsRun ==
    last_parse.called =>
        LET l == last_parse.line
            b == last_parse.before
            a == last_parse.after
        IN  /\ IsStart(l) =>
                   /\ ~last_parse.raised
                   /\ FieldIs(a, "capture", "running", TRUE)
                   /\ FieldIs(a, "capture", "duration_hr", l.a)
                   /\ FieldIs(a, "capture", "started", l.ts)
                   /\ FieldIs(a, "capture", "latest_block", DUMMY_TIME)
                   /\ FieldIs(a, "capture", "latest_all_white", DUMMY_TIME)
                   /\ FieldIs(a, "capture", "n_frames_dropped", 0)
                   /\ FieldIs(a, "detections", "n_meteor", 0)
                   /\ FieldIs(a, "detections", "n_meteor_final", 0)
                   /\ ~Has(a["capture"], "next_start")
            /\ IsStars(l) =>
                   ~last_parse.raised /\ FieldIs(a, "detections", "n_star", l.a)
            /\ (IsMeteors(l) /\ FieldIs(b, "detections", "n_meteor", 0)) =>
                   ~last_parse.raised /\ FieldIs(a, "detections", "n_meteor", l.a)

C19_StartStarsMeteors ==
    /\ last_parse.called /\ IsMeteors(last_parse.line) /\ last_parse.line.a = 1
    /\ FieldIs(last_parse.before, "capture", "running", TRUE)
    /\ FieldIs(last_parse.before, "capture", "duration_hr", 6)
    /\ FieldIs(last_parse.before, "detections", "n_star", 42)
    /\ FieldIs(last_parse.before, "detections", "n_meteor", 0)
    /\ FieldIs(last_parse.after, "detections", "n_star", 42)
    /\ FieldIs(last_parse.after, "detections", "n_meteor", 1)

\* C20: over the set_data calls of a log whose timestamps do not decrease,
\* last_modified and previous_last_modified never decrease, except in a
\* set_data call that is a rollover.
C20_FreshnessMonotone ==
    [][~last_call'.archived =>
          /\ server'.last_modified.t >= server.last_modified.t
          /\ server'.previous_last_modified.t >= server.previous_last_modified.t]_vars

C20_LaterDocumentInstalled ==
    /\ last_call.called /\ last_call.returned /\ ~last_call.archived
    /\ last_call.polling
    /\ MaxOrDummy(UpdatedSome(last_call.current)) > DUMMY_TIME
    /\ server.last_modified.t > MaxOrDummy(UpdatedSome(last_call.current))

\* C21: when a line of a poll's batch makes parse_log_line raise, the loop
\* goes back to waiting for the next cycle and the store's document holds
\* the updates of the lines of the batch parsed before the failure.
C21_PartialBatchKept ==
    [][(/\ pc = "parsing" /\ last_parse'.raised /\ last_parse' # last_parse
        /\ Len(batch) <= Len(log)
        /\ data # Put(server.data, "station_id", STATION)) =>
          /\ pc' = "idle"
          /\ server'.data = data']_vars

\* C22: the first call at or after the expiration time clears the cached
\* results of every argument, recomputes the requested one and sets the
\* expiration one lifetime after the call; a call before the expiration
\* with a cached argument returns the cached result, computing nothing.
C22_ExpiryClearsAll ==
    cache.last.called =>
        LET L == cache.last
        IN  /\ L.t1 >= L.exp_before =>
                   /\ ~L.hit
                   /\ L.result = func(L.key, L.world)
                   /\ cache.entries = <<[key |-> L.key, value |-> L.result]>>
                   /\ L.t2 >= L.t1
                   /\ cache.expiration = L.t2 + CacheSeconds
            /\ (L.t1 < L.exp_before /\ Cached(L.before, L.key)) =>
                   /\ L.hit
                   /\ L.result = L.before[EntryOf(L.before, L.key)].value
                   /\ cache.expiration = L.exp_before
                   /\ Len(cache.entries) = Len(L.before)

C22_StaleResultsDropped ==
    /\ cache.last.called
    /\ cache.last.t1 = cache.last.exp_before
    /\ Len(cache.last.before) = CacheSize
    /\ Cached(cache.last.before, cache.last.key)
    /\ cache.last.before[EntryOf(cache.last.before, cache.last.key)].value
           # cache.last.result

\* data[sec][k] of the document after is not below its value before
NotDecreased(b, a, sec, k) ==
    (Has(b, sec) /\ Has(b[sec], k)) =>
        (Has(a, sec) /\ Has(a[sec], k) /\ a[sec][k] >= b[sec][k])

CaptureFields ==
    {"duration_hr", "block_max_age_s", "n_frames_dropped", "started",
     "latest_block", "latest_all_white", "updated"}

DetectionFields == {"n_star", "n_meteor", "n_meteor_final", "last_meteor", "updated"}

\* those a line sets to its own timestamp or adds to, the others being
\* overwritten with what the line reports
GrowingCaptureFields == {"started", "latest_block", "latest_all_white", "updated"}

GrowingDetectionFields == {"n_meteor", "last_meteor", "updated"}

\* C23: from one parse_log_line step to the next, duration_hr,
\* block_max_age_s, the counters and the timestamps of the document never
\* decrease.
C23_NeverDecrease ==
    last_parse.called =>
        /\ \A k \in CaptureFields :
               NotDecreased(last_parse.before, last_parse.after, "capture", k)
        /\ \A k \in DetectionFields :
               NotDecreased(last_parse.before, last_parse.after, "detections", k)

\* C23 as the code has it: over lines whose timestamps do not decrease,
\* n_meteor and the timestamps never decrease at a line other than
\* 'Starting capture'.
C23_GrowingFieldsNeverDecrease ==
    (last_parse.called /\ ~IsStart(last_parse.line)) =>
        /\ \A k \in GrowingCaptureFields :
               NotDecreased(last_parse.before, last_parse.after, "capture", k)
        /\ \A k \in GrowingDetectionFields :
               NotDecreased(last_parse.before, last_parse.after, "detections", k)

C23_SecondMeteorLine ==
    /\ last_parse.called /\ IsMeteors(last_parse.line)
    /\ FieldIs(last_parse.before, "detections", "n_meteor", 1)
    /\ FieldIs(last_parse.after, "detections", "n_meteor", 2)
    /\ Has(last_parse.before["detections"], "last_meteor")
    /\ last_parse.after["detections"]["last_meteor"]
           > last_parse.before["detections"]["last_meteor"]

\* capture.next_start of a document, or NoDate when it has none
NextStartOf(d) ==
    IF Has(d, "capture") /\ Has(d["capture"], "next_start")
    THEN d["capture"]["next_start"] ELSE NoDate

IsNextCapture(l) == l.mod = "EventMonitor" /\ l.msg = "Next Capture start"

\* C25: after a 'Next Capture start : HH:MM:SS UTC' line capture.next_start
\* is that time of day on the event's date, or 24 hours later when that is
\* not after the event; it is strictly later than the event's timestamp and
\* at most 24 hours after it.
C25_NextStartInFuture ==
    (last_parse.called /\ IsNextCapture(last_parse.line)) =>
        LET l == last_parse.line
            sameday == (l.ts \div DAY) * DAY + l.a
            ns == NextStartOf(last_parse.after)
        IN  /\ ~last_parse.raised
            /\ ns = (IF sameday <= l.ts THEN sameday + DAY ELSE sameday)
            /\ ns > l.ts
            /\ ns <= l.ts + DAY

IsAstrometry(l) == l.mod = "Reprocess" /\ l.msg = "Astrometric calibration"

IsPhotometry(l) == l.shape = "summary" /\ l.msg = "photometry_good"

\* camera.astrometry_good of a document, if it has one
AstrometryOf(d) ==
    IF Has(d, "camera") /\ Has(d["camera"], "astrometry_good")
    THEN [set |-> TRUE, good |-> d["camera"]["astrometry_good"]]
    ELSE [set |-> FALSE, good |-> FALSE]

LevelLines(d, key) == IF Has(d, key) THEN d[key] ELSE <<>>

IsPrefix(p, q) == Len(p) <= Len(q) /\ SubSeq(q, 1, Len(p)) = p

LevelKey(l) == IF l.level = "ERROR" THEN "error" ELSE "critical"

AllLevelLines(d) ==
    { LevelLines(d, "error")[i] : i \in 1..Len(LevelLines(d, "error")) }
        \cup { LevelLines(d, "critical")[i] : i \in 1..Len(LevelLines(d, "critical")) }

\* set_data has returned and the main thread is between two batches
Settled == last_call.called /\ last_call.returned /\ pc \in {"idle", "load"}

AttemptedOf(d) ==
    IF Has(d, "upload") /\ Has(d["upload"], "attempted")
    THEN d["upload"]["attempted"] ELSE <<>>

\* C29: upload.attempted never holds a name twice; after a 'Starting upload
\* of <path>' line it is what it was without that name, followed by the
\* name.
C29_AttemptedOnceRetryLast ==
    last_parse.called =>
        /\ NoDup(AttemptedOf(last_parse.after))
        /\ IsUploadStart(last_parse.line) =>
               /\ ~last_parse.raised
               /\ AttemptedOf(last_parse.after) =
                      Append(SelectSeq(AttemptedOf(last_parse.before),
                                       LAMBDA x : x # last_parse.line.a),
                             last_parse.line.a)

\* C30: a rollover sets previous_last_modified to the largest 'updated' of
\* the sections of the archived document that have one, to the dummy time
\* when none has, and does not raise in computing it.
C30_PreviousLastModified ==
    (last_call.called /\ last_call.archived) =>
        /\ ~(last_call.raised /\ UpdatedMissing(last_call.entry))
        /\ server.previous_last_modified =
               timestamp_to_rfc2822(MaxOrDummy(UpdatedSome(last_call.entry)))

\* the last 'Next start time' of the lines is followed by a 'Starting
\* capture'
NewRunAfterRollover(b) ==
    \E i \in 1..Len(b) :
        /\ IsNextStart(b[i])
        /\ \A k \in (i + 1)..Len(b) : ~IsNextStart(b[k])
        /\ \E j \in (i + 1)..Len(b) : IsStart(b[j])

\* the fields the reset of server.py 108-116 assigns
RESET_FIELDS ==
    [capture |-> {"duration_hr", "started", "latest_block", "block_max_age_s",
                  "n_frames_dropped", "latest_all_white"},
     detections |-> {"n_meteor", "last_meteor", "n_meteor_final"}]

\* every reset field the first document has is in the second with the same
\* value
RunKept(before, after) ==
    \A sec \in DOMAIN RESET_FIELDS :
        Has(before, sec) =>
            \A k \in RESET_FIELDS[sec] \cap DOMAIN before[sec] :
                FieldIs(after, sec, k, before[sec][k])

\* C31: when the lines of a cycle hold a rollover 'Next start time' and a
\* 'Starting capture' after it, the rollover set_data of that cycle leaves
\* the started time, the duration and the counters of the new run as the
\* lines set them.
C31_StartOutlivesRollover ==
    (/\ last_parse.called /\ ~last_parse.raised
     /\ last_call.called /\ last_call.archived /\ last_call.returned
     /\ NewRunAfterRollover(batch))
        => RunKept(last_call.before, last_call.after)

\* a call for an argument that is cached, made less than one lifetime
\* after its result was computed, returns the cached result
C32_IndependentExpiry ==
    LET L == cache.last
    IN  (/\ L.called /\ Cached(L.before, L.key)
         /\ L.t1 < L.born + CacheSeconds)
            => L.hit

\* C32: the cached results of all arguments share the one expiration time
\* of the function, which is at most one lifetime after the time any of
\* them was computed: a call for a cached argument before that time
\* returns the cached result, a call at or after it returns none, and no
\* returned result is one lifetime old.
C32_SharedExpiry ==
    LET L == cache.last
    IN  /\ \A i \in 1..Len(cache.entries) :
               /\ cache.born[cache.entries[i].key] # NoBirth
               /\ cache.expiration <= cache.born[cache.entries[i].key] + CacheSeconds
        /\ (L.called /\ Cached(L.before, L.key)) =>
               /\ L.hit <=> L.t1 < L.exp_before
               /\ L.hit => L.t1 - L.born < CacheSeconds

\* a cached result is dropped with the others before it is one lifetime old
C32_DroppedBeforeLifetime ==
    LET L == cache.last
    IN  /\ L.called /\ Cached(L.before, L.key) /\ ~L.hit
        /\ L.t1 < L.born + CacheSeconds
        /\ Len(L.before) = CacheSize

\* the lines end with the only 'Next start time' among them (the empty
\* string after the final newline follows it)
EndsWithRollover(b) ==
    /\ Len(b) >= 2
    /\ IsNextStart(b[Len(b) - 1])
    /\ \A k \in 1..(Len(b) - 2) : ~IsNextStart(b[k])

\* both documents are of the run that started at the same, real, time
SameRun(d, e) ==
    /\ Has(e, "capture") /\ Has(e["capture"], "started")
    /\ e["capture"]["started"] # DUMMY_TIME
    /\ FieldIs(d, "capture", "started", e["capture"]["started"])

\* C33: the entry a rollover appends holds what every line parsed before
\* the 'Next start time' line did to the ended run, the lines of the same
\* cycle included: the started time, the duration and the counters of the
\* document handed to set_data are those of the entry.
C33_ArchiveHasWholeRun ==
    (/\ last_parse.called /\ ~last_parse.raised
     /\ last_call.called /\ last_call.archived
     /\ SameRun(last_call.entry, last_call.before)
     /\ EndsWithRollover(batch))
        => RunKept(last_call.before, last_call.entry)

\* the last cycle was abandoned after one of its lines had set the rollover
\* marker in the copy it worked on
MarkerAbandoned ==
    /\ last_parse.called /\ last_parse.raised
    /\ IsEndOfDay(last_parse.after) /\ ~IsEndOfDay(last_parse.before)

\* C34: the loop does not come to rest (every further cycle repeating the
\* last one) on an abandoned cycle that had set the rollover marker with
\* fewer history entries appended than run boundaries written.
C34_NoRolloverLost ==
    (CycleIdle /\ MarkerAbandoned) => tally.archived >= tally.boundaries

\* C35: every entry of the history is a document the parser has touched,
\* with capture.started and without the rollover marker; the empty document
\* of the constructor is never archived.
C35_EntriesAreTouched ==
    \A i \in 1..Len(server.previous_data) :
        LET e == server.previous_data[i]
        IN  /\ Initialised(e)
            /\ Has(e["capture"], "started")
            /\ ~Has(e, "end_of_day")

\* C36: a set_data call that raises leaves the store as it was: the
\* history, the current document and both last-modified values.
C36_RaisedLeavesStore ==
    [][(/\ pc = "store" /\ written' = written + 1
        /\ last_call'.called /\ last_call'.raised)
           => server' = server]_vars

\* C37: an entry of the history is never changed: a step leaves the
\* history as it is or appends one entry to it (evicting the oldest when
\* the ring is full), whatever the parser and set_data do to the working
\* document.
C37_ArchivedEntriesFrozen ==
    [][\/ server'.previous_data = server.previous_data
       \/ /\ server'.previous_data # <<>>
          /\ server'.previous_data =
                 DequeAppend(server.previous_data,
                             server'.previous_data[Len(server'.previous_data)],
                             max_history)]_vars

\* a line has been parsed into the live current document since the last
\* rollover set_data returned
C37_ParsedAfterArchive ==
    /\ pc = "load_file" /\ alias
    /\ last_call.called /\ last_call.archived /\ last_call.returned
    /\ last_parse.called /\ last_parse.after # last_parse.before
    /\ server.data = last_parse.after /\ server.data # last_call.after
    /\ server.previous_data # <<>>

\* C38: when the /latest handler reads the document it sends, the
\* last-modified value it has read for the header is the store's
\* last-modified value of that document.
C38_HeaderOfBody ==
    [][(resp.op = "latest_mtime" /\ resp'.op = "latest")
           => resp'.lm = server.last_modified]_vars

\* the sections a rollover set_data removes from the incoming document
ROLLOVER_REMOVED == {"end_of_day", "error", "critical"}

\* the fields of a section the reset may assign
ResetOf(sec) == IF sec \in DOMAIN RESET_FIELDS THEN RESET_FIELDS[sec] ELSE {}

\* C39: a rollover set_data that returns leaves in the document it installs
\* every section of the incoming document but the marker and the error and
\* critical sections, adds none, and changes in them nothing but the reset
\* fields of capture and detections: camera, upload, station_id, n_star,
\* running, next_start and the 'updated' timestamps are as they came.
C39_RolloverFrame ==
    (last_call.called /\ last_call.archived /\ last_call.returned) =>
        LET b == last_call.before
            a == last_call.after
        IN  /\ DOMAIN a = (DOMAIN b) \ ROLLOVER_REMOVED
            /\ \A sec \in DOMAIN a :
                   IF ResetOf(sec) = {} THEN a[sec] = b[sec]
                   ELSE /\ (DOMAIN b[sec]) \subseteq DOMAIN a[sec]
                        /\ (DOMAIN a[sec]) \subseteq (DOMAIN b[sec]) \cup ResetOf(sec)
                        /\ \A k \in (DOMAIN b[sec]) \ ResetOf(sec) :
                               a[sec][k] = b[sec][k]

\* a rollover reset the run's fields of a document that had a star count,
\* a next start time, a camera section and a section of errors
C39_ResetBesideKept ==
    /\ last_call.called /\ last_call.archived /\ last_call.returned
    /\ last_call.before["capture"]["started"] # DUMMY_TIME
    /\ last_call.after["capture"]["started"] = DUMMY_TIME
    /\ FieldIs(last_call.after, "detections", "n_star", 42)
    /\ Has(last_call.after["capture"], "next_start")
    /\ FieldIs(last_call.after, "camera", "lens", 4)
    /\ Has(last_call.before, "error") /\ ~Has(last_call.after, "error")

\* C40: a first call, made without a document or with an empty one, that
\* returns leaves the four sections with the defaults a document lacking
\* them gets: detections.n_star (0 unless the line is a star count) and
\* upload.attempted and upload.completed, both empty.
C40_DefaultsOnFirstCall ==
    (last_parse.called /\ ~last_parse.raised /\ last_parse.before = EmptyDict) =>
        LET a == last_parse.after
        IN  /\ Initialised(a)
            /\ Has(a["detections"], "n_star")
            /\ ~IsStars(last_parse.line) => a["detections"]["n_star"] = 0
            /\ FieldIs(a, "upload", "attempted", <<>>)
            /\ FieldIs(a, "upload", "completed", <<>>)

====
